---- MODULE Spec2Model ----
(***************************************************************************)
(* GlobeBudget (AbroadBuddy): the budget ledger of the two clients.        *)
(*                                                                         *)
(*  - the web client: the Supabase tables (budgets, expenses, trips,       *)
(*    wishlist_items), the React data context that caches them, and the    *)
(*    asynchronous Dashboard handlers (handleExpenseFormSubmit, the        *)
(*    confirmation onClick, handleAddExpense, confirmUpdateBalance,        *)
(*    handleDeleteExpense) together with refreshData;                      *)
(*  - the iOS client: the SwiftData store and the synchronous addExpense,  *)
(*    updateBalance, deleteExpense and saveBudget.                         *)
(*                                                                         *)
(* Money is counted in whole currency units.  Timestamps (updated_at,      *)
(* updatedAt), descriptions, dates and notes of the records carry no       *)
(* ledger information and are left out; the 10 s "Request timed out"       *)
(* timers of the web handlers are not modelled.                            *)
(***************************************************************************)
EXTENDS Integers, FiniteSets, Sequences, TLC

\* ---------------------------------------------------------------- bounds
MaxAmount   == 2      \* expense amounts entered: 1..MaxAmount
MaxBalance  == 2      \* balances entered: 0..MaxBalance
MaxExpenses == 2      \* expense rows created in one behaviour
MaxDay      == 3      \* calendar days: 1..MaxDay
MaxWishlist == 1      \* wishlist item ids: 1..MaxWishlist
MaxPlanRows == 3      \* weekly plan and event rows created in one behaviour
MaxWeeks    == 3      \* weeks of the localStorage calendar: days 1..7 * MaxWeeks
MaxRequests == 3      \* exchange rate requests issued on one day

Amounts      == 1..MaxAmount
Balances     == 0..MaxBalance
InitLimits   == {1, MaxBalance}
Days         == 1..MaxDay
Periods      == [startDate : Days, endDate : Days]

\* ------------------------------------------------------------- constants
BalanceAdjustment == "Balance Adjustment"
NoCategory        == "none"

NoBudget == [budgetMode |-> "none", semesterBudget |-> 0,
             spent |-> 0, plannedSpending |-> 0]

\* The trips and wishlist items a user may already have (id, costs).
TripChoices == { {[id |-> 1, prepaidCost |-> 1, plannedCost |-> 2]} }
WishChoices == { {[id |-> 1, estimatedCost |-> 2]} }

\* ------------------------------------------------------------- reductions
RECURSIVE SumAmount(_)
SumAmount(S) ==
  IF S = {} THEN 0
  ELSE LET e == CHOOSE x \in S : TRUE IN e.amount + SumAmount(S \ {e})

RECURSIVE SumPrepaid(_)
SumPrepaid(S) ==
  IF S = {} THEN 0
  ELSE LET t == CHOOSE x \in S : TRUE IN t.prepaidCost + SumPrepaid(S \ {t})

RECURSIVE SumPlanned(_)
SumPlanned(S) ==
  IF S = {} THEN 0
  ELSE LET t == CHOOSE x \in S : TRUE IN t.plannedCost + SumPlanned(S \ {t})

RECURSIVE SumEstimated(_)
SumEstimated(S) ==
  IF S = {} THEN 0
  ELSE LET w == CHOOSE x \in S : TRUE IN w.estimatedCost + SumEstimated(S \ {w})

\* storage.calculateSpentAndPlanned
calculateSpentAndPlanned(trips, expenses) ==
  [spent   |-> SumPrepaid(trips) + SumAmount(expenses),
   planned |-> SumPlanned(trips)]

VARIABLES
  \* ---- web: Supabase tables
  dbBudget, dbExpenses, dbTrips, dbWishlist,
  \* ---- web: React data context (DataProvider state)
  ctxBudget, ctxExpenses, ctxTrips, ctxWishlist,
  \* ---- web: Dashboard component state
  pendingExpense, isSaving,
  \* ---- web: handlers in progress and requests in flight
  flows, inflight, nextId,
  \* ---- iOS: SwiftData store
  iosBudget, iosExpenses, iosTrips, iosWishlist, iosNextId,
  \* ---- iOS: DashboardView state
  iosIncludeWishlist,
  \* ---- the calendar: the current day, the period of the budget (web row /
  \* iOS model), the wishlist checkbox of the web Dashboard
  today, budgetPeriod, iosPeriod, webIncludeWishlist,
  \* ---- web weekly planner: weekly_plans and weekly_plan_events tables,
  \* CalendarView state, handleAddEvent invocations
  dbWeeklyPlans, dbPlanEvents, weeklyPlan, planFlows, planNextId,
  \* ---- iOS weekly planner: the WeeklyPlan models with their events
  iosWeeklyPlans, iosPlanNextId,
  \* ---- the localStorage client: the stored budget, trips and expenses,
  \* and the weeklyBudgets state of its Dashboard
  lsBudget, lsTrips, lsExpenses, weeklyBudgets,
  \* ---- the localStorage client: the list last returned by getRecommendations
  recommendations,
  \* ---- iOS ExchangeRateService: its published properties, the UserDefaults
  \* cache, the fetchRate calls that await their response, and the number
  \* of rate requests issued on each day
  eurToUsd, lastUpdated, isLoading, error, cachedRate, rateFetches,
  rateRequests

webVars == <<dbBudget, dbExpenses, dbTrips, dbWishlist,
             ctxBudget, ctxExpenses, ctxTrips, ctxWishlist,
             pendingExpense, isSaving,
             flows, inflight, nextId>>
iosVars == <<iosBudget, iosExpenses, iosTrips, iosWishlist, iosNextId,
             iosIncludeWishlist>>
viewVars == <<today, budgetPeriod, iosPeriod, webIncludeWishlist>>
planVars == <<dbWeeklyPlans, dbPlanEvents, weeklyPlan, planFlows, planNextId,
              iosWeeklyPlans, iosPlanNextId>>
legacyVars == <<lsBudget, lsTrips, lsExpenses, weeklyBudgets, recommendations>>
fxVars   == <<eurToUsd, lastUpdated, isLoading, error, cachedRate, rateFetches,
              rateRequests>>
extVars  == <<viewVars, planVars, legacyVars, fxVars>>
vars     == <<webVars, iosVars, extVars>>

\* ================================================================ web ====
\* A handler invocation: its closure values and locals, and where it stands.
IdleFlow == [kind |-> "none", pc |-> "idle",
             budget |-> NoBudget, amount |-> 0, newBalance |-> 0, expId |-> 0,
             savedBudget |-> NoBudget, savedExpenses |-> {}]

\* The handlers followed: one of the guarded Dashboard handlers ("main"),
\* handleDeleteExpense ("delete"), a handler of the Wishlist page ("wish").
FlowIds == {"main", "delete", "wish"}

Resting(f) == flows[f].pc = "idle"

\* The Expense object handleAddExpense builds (crypto.randomUUID() is id).
newExpense(id, amount) ==
  [id |-> id, amount |-> amount, category |-> NoCategory]

\* A variant that books the adjustment with the opposite sign.
balanceExpenseNegated(id, currentBalance, newBalance) ==
  [id |-> id, amount |-> newBalance - currentBalance,
   category |-> BalanceAdjustment]

\* The synthetic Expense confirmUpdateBalance builds when difference > 0.
balanceExpense(id, currentBalance, newBalance) ==
  [id |-> id, amount |-> currentBalance - newBalance,
   category |-> BalanceAdjustment]

\* The budget the confirmation onClick hands to storage.saveBudget.
decrementedBudget(budget, amount) ==
  [budget EXCEPT !.semesterBudget = budget.semesterBudget - amount]

\* The updatedBudget of confirmUpdateBalance.
balanceBudget(budget, newBalance) ==
  [budget EXCEPT !.semesterBudget = newBalance]

\* confirmUpdateBalance when both of its writes succeed: the rows afterwards.
confirmUpdateBalanceResult(budget, expenses, id, newBalance) ==
  [expenses |-> IF budget.semesterBudget - newBalance > 0
                THEN expenses \cup
                       {balanceExpense(id, budget.semesterBudget, newBalance)}
                ELSE expenses,
   budget   |-> balanceBudget(budget, newBalance)]

\* The handler returned: `finally { setIsSaving(false) }` of the guarded
\* handlers; handleDeleteExpense holds no flag.
Returned(f, outcome) ==
  /\ flows' = [flows EXCEPT ![f] = IdleFlow]
  /\ isSaving' = IF f = "main" THEN FALSE ELSE isSaving
  /\ pendingExpense' = IF f = "main" /\ outcome = "ok" THEN 0 ELSE pendingExpense

\* ---- handleExpenseFormSubmit
\* Remaining mode: keep the expense pending and show the confirmation.
\* Other modes: call handleAddExpense directly.
handleExpenseFormSubmit(a) ==
  /\ ctxBudget # NoBudget
  /\ ~isSaving
  /\ pendingExpense = 0
  /\ nextId <= MaxExpenses
  /\ IF ctxBudget.budgetMode = "remaining"
     THEN /\ pendingExpense' = a
          /\ UNCHANGED <<flows, isSaving, nextId>>
     ELSE /\ flows' = [flows EXCEPT !["main"] =
                 [IdleFlow EXCEPT !.kind = "add", !.pc = "insert",
                                  !.budget = ctxBudget, !.amount = a,
                                  !.expId = nextId]]
          /\ isSaving' = TRUE
          /\ nextId' = nextId + 1
          /\ UNCHANGED pendingExpense
  /\ UNCHANGED <<dbBudget, dbExpenses, dbTrips, dbWishlist, ctxBudget,
                 ctxExpenses, ctxTrips, ctxWishlist,
                 inflight, iosVars, extVars>>

\* ---- "Yes, Add Expense": handleAddExpense(pendingExpense) is started and,
\* without awaiting it, storage.saveBudget(updatedBudget) is issued.
confirmExpense ==
  /\ ctxBudget # NoBudget
  /\ pendingExpense # 0
  /\ ~isSaving
  /\ nextId <= MaxExpenses
  /\ flows' = [flows EXCEPT !["main"] =
         [IdleFlow EXCEPT !.kind = "add", !.pc = "insert",
                          !.budget = ctxBudget, !.amount = pendingExpense,
                          !.expId = nextId]]
  /\ isSaving' = TRUE
  /\ nextId' = nextId + 1
  /\ inflight' = inflight \cup
       {[id |-> nextId, budget |-> ctxBudget, amount |-> pendingExpense]}
  /\ UNCHANGED <<dbBudget, dbExpenses, dbTrips, dbWishlist, ctxBudget,
                 ctxExpenses, ctxTrips, ctxWishlist,
                 pendingExpense, iosVars, extVars>>

\* ---- "Go Back"
cancelExpenseConfirm ==
  /\ pendingExpense # 0
  /\ ~isSaving
  /\ pendingExpense' = 0
  /\ UNCHANGED <<dbBudget, dbExpenses, dbTrips, dbWishlist, ctxBudget,
                 ctxExpenses, ctxTrips, ctxWishlist,
                 isSaving, flows, inflight, nextId, iosVars, extVars>>

\* ---- the unawaited storage.saveBudget of the confirmation (a request is
\* the budget and the pending amount its closure holds): the upsert reaches
\* the budgets row, or the request fails (nobody handles the error).
pendingSaveApplied(w) ==
  /\ w \in inflight
  /\ dbBudget' = decrementedBudget(w.budget, w.amount)
  /\ inflight' = inflight \ {w}
  /\ UNCHANGED <<dbExpenses, dbTrips, dbWishlist, ctxBudget, ctxExpenses,
                 ctxTrips, ctxWishlist, pendingExpense,
                 isSaving, flows, nextId, iosVars, extVars>>

pendingSaveFailed(w) ==
  /\ w \in inflight
  /\ inflight' = inflight \ {w}
  /\ UNCHANGED <<dbBudget, dbExpenses, dbTrips, dbWishlist, ctxBudget,
                 ctxExpenses, ctxTrips, ctxWishlist,
                 pendingExpense, isSaving, flows, nextId, iosVars, extVars>>

\* ---- handleAddExpense: await storage.addExpense(expense)
addExpenseInserted ==
  /\ flows["main"].kind = "add" /\ flows["main"].pc = "insert"
  /\ dbExpenses' = dbExpenses \cup
        {newExpense(flows["main"].expId, flows["main"].amount)}
  /\ flows' = [flows EXCEPT !["main"].pc = "r_read"]
  /\ UNCHANGED <<dbBudget, dbTrips, dbWishlist, ctxBudget, ctxExpenses,
                 ctxTrips, ctxWishlist, pendingExpense,
                 isSaving, inflight, nextId, iosVars, extVars>>

\* storage.addExpense throws: catch (alert), finally setIsSaving(false).
addExpenseFailed ==
  /\ flows["main"].kind = "add" /\ flows["main"].pc = "insert"
  /\ Returned("main", "error")
  /\ UNCHANGED <<dbBudget, dbExpenses, dbTrips, dbWishlist, ctxBudget,
                 ctxExpenses, ctxTrips, ctxWishlist,
                 inflight, nextId, iosVars, extVars>>

\* ---- confirmUpdateBalance (the Update Balance tab exists in Remaining
\* mode only).  difference = currentBalance - newBalance.
confirmUpdateBalance(newBalance) ==
  /\ ctxBudget # NoBudget
  /\ ctxBudget.budgetMode = "remaining"
  /\ ~isSaving
  /\ LET difference == ctxBudget.semesterBudget - newBalance IN
     /\ difference > 0 => nextId <= MaxExpenses
     /\ flows' = [flows EXCEPT !["main"] =
          [IdleFlow EXCEPT !.kind = "balance",
                           !.pc = IF difference > 0 THEN "b_insert" ELSE "b_save",
                           !.budget = ctxBudget,
                           !.amount = difference,
                           !.newBalance = newBalance,
                           !.expId = IF difference > 0 THEN nextId ELSE 0]]
     /\ nextId' = IF difference > 0 THEN nextId + 1 ELSE nextId
  /\ isSaving' = TRUE
  /\ pendingExpense' = 0
  /\ UNCHANGED <<dbBudget, dbExpenses, dbTrips, dbWishlist, ctxBudget,
                 ctxExpenses, ctxTrips, ctxWishlist,
                 inflight, iosVars, extVars>>

\* if (difference > 0) await storage.addExpense(expense)
balanceExpenseInserted ==
  /\ flows["main"].kind = "balance" /\ flows["main"].pc = "b_insert"
  /\ dbExpenses' = dbExpenses \cup
        {balanceExpense(flows["main"].expId,
                        flows["main"].budget.semesterBudget,
                        flows["main"].newBalance)}
  /\ flows' = [flows EXCEPT !["main"].pc = "b_save"]
  /\ UNCHANGED <<dbBudget, dbTrips, dbWishlist, ctxBudget, ctxExpenses,
                 ctxTrips, ctxWishlist, pendingExpense,
                 isSaving, inflight, nextId, iosVars, extVars>>

balanceExpenseFailed ==
  /\ flows["main"].kind = "balance" /\ flows["main"].pc = "b_insert"
  /\ Returned("main", "error")
  /\ UNCHANGED <<dbBudget, dbExpenses, dbTrips, dbWishlist, ctxBudget,
                 ctxExpenses, ctxTrips, ctxWishlist,
                 inflight, nextId, iosVars, extVars>>

\* await storage.saveBudget(updatedBudget)
balanceBudgetSaved ==
  /\ flows["main"].kind = "balance" /\ flows["main"].pc = "b_save"
  /\ dbBudget' = balanceBudget(flows["main"].budget, flows["main"].newBalance)
  /\ flows' = [flows EXCEPT !["main"].pc = "r_read"]
  /\ UNCHANGED <<dbExpenses, dbTrips, dbWishlist, ctxBudget, ctxExpenses,
                 ctxTrips, ctxWishlist, pendingExpense,
                 isSaving, inflight, nextId, iosVars, extVars>>

balanceBudgetFailed ==
  /\ flows["main"].kind = "balance" /\ flows["main"].pc = "b_save"
  /\ Returned("main", "error")
  /\ UNCHANGED <<dbBudget, dbExpenses, dbTrips, dbWishlist, ctxBudget,
                 ctxExpenses, ctxTrips, ctxWishlist,
                 inflight, nextId, iosVars, extVars>>

\* ---- handleDeleteExpense(id), called from the expense list of the context
handleDeleteExpense(e) ==
  /\ ctxBudget # NoBudget
  /\ e \in ctxExpenses
  /\ Resting("delete")
  /\ flows' = [flows EXCEPT !["delete"] =
        [IdleFlow EXCEPT !.kind = "delete", !.pc = "d_delete",
                         !.amount = e.amount,
                         !.expId = e.id]]
  /\ UNCHANGED <<dbBudget, dbExpenses, dbTrips, dbWishlist, ctxBudget,
                 ctxExpenses, ctxTrips, ctxWishlist,
                 pendingExpense, isSaving, inflight, nextId, iosVars, extVars>>

\* await storage.deleteExpense(id)
expenseDeleted ==
  /\ flows["delete"].pc = "d_delete"
  /\ dbExpenses' = {x \in dbExpenses : x.id # flows["delete"].expId}
  /\ flows' = [flows EXCEPT !["delete"].pc = "r_read"]
  /\ UNCHANGED <<dbBudget, dbTrips, dbWishlist, ctxBudget, ctxExpenses,
                 ctxTrips, ctxWishlist, pendingExpense,
                 isSaving, inflight, nextId, iosVars, extVars>>

deleteExpenseFailed ==
  /\ flows["delete"].pc = "d_delete"
  /\ Returned("delete", "error")
  /\ UNCHANGED <<dbBudget, dbExpenses, dbTrips, dbWishlist, ctxBudget,
                 ctxExpenses, ctxTrips, ctxWishlist,
                 inflight, nextId, iosVars, extVars>>

\* ---- refreshData, awaited by each of the three handlers
\* Promise.all([getBudget, getTrips, getWishlist, getExpenses])
refreshRead(f) ==
  /\ flows[f].pc = "r_read"
  /\ flows' = [flows EXCEPT ![f].pc = "r_calc",
                            ![f].savedBudget = dbBudget,
                            ![f].savedExpenses = dbExpenses]
  /\ UNCHANGED <<dbBudget, dbExpenses, dbTrips, dbWishlist, ctxBudget,
                 ctxExpenses, ctxTrips, ctxWishlist,
                 pendingExpense, isSaving, inflight, nextId, iosVars, extVars>>

\* The same reads when the query of one table comes back with an error:
\* storage.getBudget answers null and storage.getExpenses answers [] (the
\* reads of trips and wishlist items end the same way), nothing is thrown.
refreshReadFailed(f, table) ==
  /\ flows[f].pc = "r_read"
  /\ flows' = [flows EXCEPT
        ![f].pc = "r_calc",
        ![f].savedBudget = IF table = "budgets" THEN NoBudget ELSE dbBudget,
        ![f].savedExpenses = IF table = "expenses" THEN {} ELSE dbExpenses]
  /\ UNCHANGED <<dbBudget, dbExpenses, dbTrips, dbWishlist, ctxBudget,
                 ctxExpenses, ctxTrips, ctxWishlist,
                 pendingExpense, isSaving, inflight, nextId, iosVars, extVars>>

\* The budget refreshData writes back: the row it read, with the
\* recomputed spent and plannedSpending.
refreshedBudget(savedBudget, totals) ==
  [savedBudget EXCEPT !.spent = totals.spent,
                      !.plannedSpending = totals.planned]

\* A variant whose recomputation counts the wishlist items as planned
\* spending.
refreshCalculateWithWishlist(f) ==
  /\ flows[f].pc = "r_calc"
  /\ LET saved  == flows[f].savedBudget
         sums   == calculateSpentAndPlanned(dbTrips, dbExpenses)
         totals == [sums EXCEPT
                      !.planned = sums.planned + SumEstimated(dbWishlist)] IN
     IF /\ saved # NoBudget
        /\ saved.spent # totals.spent \/ saved.plannedSpending # totals.planned
     THEN /\ flows' = [flows EXCEPT ![f].pc = "r_save",
                          ![f].savedBudget = refreshedBudget(saved, totals)]
          /\ UNCHANGED <<ctxBudget, ctxExpenses, ctxTrips, ctxWishlist,
                         isSaving, pendingExpense>>
     ELSE /\ ctxBudget' = saved
          /\ ctxExpenses' = flows[f].savedExpenses
          /\ ctxTrips' = dbTrips
          /\ ctxWishlist' = dbWishlist
          /\ Returned(f, "ok")
  /\ UNCHANGED <<dbBudget, dbExpenses, dbTrips, dbWishlist,
                 inflight, nextId, iosVars, extVars>>

\* calculateSpentAndPlanned reads trips and expenses again; when the cached
\* amounts are current the context is set and the handler returns.
refreshCalculate(f) ==
  /\ flows[f].pc = "r_calc"
  /\ LET saved  == flows[f].savedBudget
         totals == calculateSpentAndPlanned(dbTrips, dbExpenses) IN
     IF /\ saved # NoBudget
        /\ saved.spent # totals.spent \/ saved.plannedSpending # totals.planned
     THEN /\ flows' = [flows EXCEPT ![f].pc = "r_save",
                          ![f].savedBudget = refreshedBudget(saved, totals)]
          /\ UNCHANGED <<ctxBudget, ctxExpenses, ctxTrips, ctxWishlist,
                         isSaving, pendingExpense>>
     ELSE /\ ctxBudget' = saved
          /\ ctxExpenses' = flows[f].savedExpenses
          /\ ctxTrips' = dbTrips
          /\ ctxWishlist' = dbWishlist
          /\ Returned(f, "ok")
  /\ UNCHANGED <<dbBudget, dbExpenses, dbTrips, dbWishlist,
                 inflight, nextId, iosVars, extVars>>

\* await storage.saveBudget(updatedBudget); setBudget(updatedBudget)
refreshSaved(f) ==
  /\ flows[f].pc = "r_save"
  /\ dbBudget' = flows[f].savedBudget
  /\ ctxBudget' = flows[f].savedBudget
  /\ ctxExpenses' = flows[f].savedExpenses
  /\ ctxTrips' = dbTrips
  /\ ctxWishlist' = dbWishlist
  /\ Returned(f, "ok")
  /\ UNCHANGED <<dbExpenses, dbTrips, dbWishlist,
                 inflight, nextId, iosVars, extVars>>

\* saveBudget throws inside refreshData: the error is caught and logged,
\* the context keeps its data, and the calling handler carries on.
refreshSaveFailed(f) ==
  /\ flows[f].pc = "r_save"
  /\ Returned(f, "ok")
  /\ UNCHANGED <<dbBudget, dbExpenses, dbTrips, dbWishlist, ctxBudget,
                 ctxExpenses, ctxTrips, ctxWishlist,
                 inflight, nextId, iosVars, extVars>>

\* ================================================================ iOS ====
\* Budget.mode: BudgetMode(rawValue: budgetMode) ?? .remaining, where the
\* enum has the cases "remaining" and "tracking" only.
iosMode(budget) ==
  IF budget.budgetMode \in {"remaining", "tracking"}
  THEN budget.budgetMode
  ELSE "remaining"

\* AddExpenseView.addExpense: the store after recording finalAmount.
iosAddExpenseResult(budget, expenses, id, finalAmount) ==
  [expenses |-> expenses \cup
                  {[id |-> id, amount |-> finalAmount, category |-> NoCategory]},
   budget   |-> IF budget # NoBudget /\ iosMode(budget) = "remaining"
                THEN [budget EXCEPT !.semesterBudget =
                                       budget.semesterBudget - finalAmount]
                ELSE budget]

\* AddExpenseView.updateBalance: the store after setting finalBalance.
iosUpdateBalanceResult(budget, expenses, id, finalBalance) ==
  LET difference == budget.semesterBudget - finalBalance IN
  [expenses |-> IF difference > 0
                THEN expenses \cup {[id |-> id, amount |-> difference,
                                     category |-> BalanceAdjustment]}
                ELSE expenses,
   budget   |-> [budget EXCEPT !.semesterBudget = finalBalance]]

\* The store had deleteExpense removed the expense and left the budget.
iosDeleteExpenseKeepingLimit(budget, expenses, expense) ==
  [expenses |-> expenses \ {expense}, budget |-> budget]

\* DashboardView.deleteExpense: the store after deleting expense.
iosDeleteExpenseResult(budget, expenses, expense) ==
  [expenses |-> expenses \ {expense},
   budget   |-> IF budget # NoBudget /\ iosMode(budget) = "remaining"
                THEN [budget EXCEPT !.semesterBudget =
                                       budget.semesterBudget + expense.amount]
                ELSE budget]

\* guard finalAmount > 0 else { return }
iosAddExpense(finalAmount) ==
  /\ iosBudget # NoBudget
  /\ finalAmount > 0
  /\ iosNextId <= MaxExpenses
  /\ LET r == iosAddExpenseResult(iosBudget, iosExpenses, iosNextId, finalAmount) IN
     /\ iosExpenses' = r.expenses
     /\ iosBudget' = r.budget
  /\ iosNextId' = iosNextId + 1
  /\ UNCHANGED <<webVars, extVars, iosTrips, iosWishlist, iosIncludeWishlist>>

\* guard finalBalance > 0, let budget = budget else { return }; the Update
\* Balance tab is offered when budget.mode == .remaining.
iosUpdateBalance(finalBalance) ==
  /\ iosBudget # NoBudget
  /\ iosMode(iosBudget) = "remaining"
  /\ finalBalance > 0
  /\ iosBudget.semesterBudget - finalBalance > 0 => iosNextId <= MaxExpenses
  /\ LET r == iosUpdateBalanceResult(iosBudget, iosExpenses, iosNextId, finalBalance) IN
     /\ iosExpenses' = r.expenses
     /\ iosBudget' = r.budget
     /\ iosNextId' = IF r.expenses # iosExpenses THEN iosNextId + 1 ELSE iosNextId
  /\ UNCHANGED <<webVars, extVars, iosTrips, iosWishlist, iosIncludeWishlist>>

iosDeleteExpense(expense) ==
  /\ iosBudget # NoBudget
  /\ expense \in iosExpenses
  /\ LET r == iosDeleteExpenseResult(iosBudget, iosExpenses, expense) IN
     /\ iosExpenses' = r.expenses
     /\ iosBudget' = r.budget
  /\ UNCHANGED <<webVars, extVars, iosTrips, iosWishlist, iosNextId,
                 iosIncludeWishlist>>

\* BudgetSetupView.saveBudget on the existing budget; the two DatePickers
\* take any pair of dates.
iosSaveBudget(mode, amount, period) ==
  /\ iosBudget # NoBudget
  /\ iosBudget' = [iosBudget EXCEPT
                     !.budgetMode = mode,
                     !.semesterBudget = IF mode = "tracking" THEN 0 ELSE amount]
  /\ iosPeriod' = period
  /\ UNCHANGED <<webVars, planVars, legacyVars, fxVars, iosExpenses, iosTrips, iosWishlist,
                 iosNextId, iosIncludeWishlist,
                 today, budgetPeriod, webIncludeWishlist>>

\* Toggle(isOn: $includeWishlist) of the DashboardView.
iosToggleWishlist ==
  /\ iosBudget # NoBudget
  /\ iosIncludeWishlist' = ~iosIncludeWishlist
  /\ UNCHANGED <<webVars, extVars, iosBudget, iosExpenses, iosTrips, iosWishlist,
                 iosNextId>>

\* ===================================================== derived figures ====
\* ---- web Dashboard (budget calculations)
dashTotalSpent   == SumPrepaid(ctxTrips) + SumAmount(ctxExpenses)
dashTotalPlanned == SumPlanned(ctxTrips)
dashWishlistTotal == SumEstimated(ctxWishlist)
\* A variant that nets the planned trip costs out of remaining as well.
dashRemainingNetOfPlanned ==
  IF ctxBudget # NoBudget
  THEN ctxBudget.semesterBudget - dashTotalSpent - dashTotalPlanned
  ELSE 0
dashRemaining ==
  IF ctxBudget # NoBudget THEN ctxBudget.semesterBudget - dashTotalSpent ELSE 0
dashRemainingWithWishlist ==
  IF ctxBudget # NoBudget
  THEN ctxBudget.semesterBudget - (dashTotalSpent + dashWishlistTotal)
  ELSE 0
dashRemainingAfterPlanned == dashRemaining - dashTotalPlanned
dashRemainingAfterPlannedWithWishlist ==
  dashRemainingWithWishlist - dashTotalPlanned

\* percentageUsed, percentageUsedWithWishlist, percentageCommitted, as the
\* exact quotient of the percentage (d = 0 is a division by zero)
dashPercentage(amount) ==
  IF ctxBudget # NoBudget /\ ctxBudget.semesterBudget > 0
  THEN [num |-> amount * 100, den |-> ctxBudget.semesterBudget]
  ELSE [num |-> 0, den |-> 1]
dashPercentageUsed == dashPercentage(dashTotalSpent)
dashPercentageUsedWithWishlist ==
  dashPercentage(dashTotalSpent + dashWishlistTotal)
dashPercentageCommitted == dashPercentage(dashTotalSpent + dashTotalPlanned)

\* The Remaining-mode cards of the web Dashboard: "Current Remaining" and
\* "After Planned Spending".
dashCurrentRemaining == ctxBudget.semesterBudget
dashAfterPlannedSpending(includeWishlist) ==
  ctxBudget.semesterBudget -
    (IF includeWishlist THEN dashTotalPlanned + dashWishlistTotal
                        ELSE dashTotalPlanned)

\* ---- web CalendarView (hasLimit / remainingBudget)
calHasLimit ==
  ctxBudget.budgetMode # "tracking" /\ ctxBudget.semesterBudget > 0
calRemainingBudget ==
  IF calHasLimit
  THEN IF ctxBudget.budgetMode = "remaining"
       THEN ctxBudget.semesterBudget - SumPlanned(ctxTrips)
       ELSE ctxBudget.semesterBudget - ctxBudget.spent - SumPlanned(ctxTrips)
  ELSE 0

\* ---- iOS DashboardView (calculations)
iosTotalSpent     == SumPrepaid(iosTrips) + SumAmount(iosExpenses)
iosTotalPlanned   == SumPlanned(iosTrips)
iosWishlistTotal  == SumEstimated(iosWishlist)
iosRemaining ==
  IF iosBudget # NoBudget THEN iosBudget.semesterBudget - iosTotalSpent ELSE 0
iosRemainingAfterPlanned ==
  iosRemaining - iosTotalPlanned
    - (IF iosIncludeWishlist THEN iosWishlistTotal ELSE 0)

\* ---- iOS DashboardView.remainingModeStats and CalendarTabView.remainingBudget
iosCurrentRemaining == iosBudget.semesterBudget
iosAfterPlanned ==
  iosBudget.semesterBudget - iosTotalPlanned
    - (IF iosIncludeWishlist THEN iosWishlistTotal ELSE 0)
iosCalRemainingBudget(withWishlist) ==
  IF iosBudget = NoBudget \/ iosMode(iosBudget) = "tracking"
  THEN 0
  ELSE iosBudget.semesterBudget - SumPlanned(iosTrips)
         - (IF withWishlist THEN SumEstimated(iosWishlist) ELSE 0)

\* ============================================================ wishlist ====
WishIds == 1..MaxWishlist
\* estimatedCost: parseFloat(formData.estimatedCost)
WishCosts == {1, MaxAmount}
WishlistItem(id, cost) == [id |-> id, estimatedCost |-> cost]
ItemIds(items) == {i.id : i \in items}

\* ---- web Wishlist.handleSubmit: update the item being edited (an item of
\* the list shown) or add one with a fresh id, then refreshData
handleWishlistSubmit(id, cost) ==
  /\ Resting("wish")
  /\ id \in ItemIds(ctxWishlist) \/ id \notin ItemIds(dbWishlist)
  /\ flows' = [flows EXCEPT !["wish"] =
        [IdleFlow EXCEPT
           !.kind = IF id \in ItemIds(ctxWishlist) THEN "wishUpdate"
                                                    ELSE "wishAdd",
           !.pc = "w_write", !.expId = id, !.amount = cost]]
  /\ UNCHANGED <<dbBudget, dbExpenses, dbTrips, dbWishlist, ctxBudget,
                 ctxExpenses, ctxTrips, ctxWishlist, pendingExpense,
                 isSaving, inflight, nextId, iosVars, extVars>>

\* ---- web Wishlist.handleDelete(id), confirmed
handleWishlistDelete(item) ==
  /\ Resting("wish")
  /\ item \in ctxWishlist
  /\ flows' = [flows EXCEPT !["wish"] =
        [IdleFlow EXCEPT !.kind = "wishDelete", !.pc = "w_write",
                         !.expId = item.id]]
  /\ UNCHANGED <<dbBudget, dbExpenses, dbTrips, dbWishlist, ctxBudget,
                 ctxExpenses, ctxTrips, ctxWishlist, pendingExpense,
                 isSaving, inflight, nextId, iosVars, extVars>>

\* storage.addWishlistItem / updateWishlistItem / deleteWishlistItem: the
\* wishlist_items rows afterwards.
wishlistRows(rows, kind, id, cost) ==
  IF kind = "wishAdd" THEN rows \cup {WishlistItem(id, cost)}
  ELSE IF kind = "wishUpdate"
       THEN {IF r.id = id THEN WishlistItem(id, cost) ELSE r : r \in rows}
       ELSE {r \in rows : r.id # id}

wishlistWritten ==
  /\ flows["wish"].pc = "w_write"
  /\ dbWishlist' = wishlistRows(dbWishlist, flows["wish"].kind,
                                flows["wish"].expId, flows["wish"].amount)
  /\ flows' = [flows EXCEPT !["wish"].pc = "r_read"]
  /\ UNCHANGED <<dbBudget, dbExpenses, dbTrips, ctxBudget, ctxExpenses,
                 ctxTrips, ctxWishlist, pendingExpense,
                 isSaving, inflight, nextId, iosVars, extVars>>

\* The storage call throws: the handler alerts and returns.
wishlistWriteFailed ==
  /\ flows["wish"].pc = "w_write"
  /\ Returned("wish", "error")
  /\ UNCHANGED <<dbBudget, dbExpenses, dbTrips, dbWishlist, ctxBudget,
                 ctxExpenses, ctxTrips, ctxWishlist,
                 inflight, nextId, iosVars, extVars>>

\* ---- iOS WishlistFormView.saveItem and deleteItem
iosSaveItem(id, cost) ==
  /\ iosWishlist' = IF id \in ItemIds(iosWishlist)
                    THEN wishlistRows(iosWishlist, "wishUpdate", id, cost)
                    ELSE wishlistRows(iosWishlist, "wishAdd", id, cost)
  /\ UNCHANGED <<webVars, extVars, iosBudget, iosExpenses, iosTrips,
                 iosNextId, iosIncludeWishlist>>

iosDeleteItem(item) ==
  /\ item \in iosWishlist
  /\ iosWishlist' = wishlistRows(iosWishlist, "wishDelete", item.id, 0)
  /\ UNCHANGED <<webVars, extVars, iosBudget, iosExpenses, iosTrips,
                 iosNextId, iosIncludeWishlist>>

\* ====================================================== weekly planner ====
\* CalendarView state weeklyPlan: null until a plan is loaded.
NoPlan == [id |-> 0, events |-> {}]
\* handleAddEvent has no in-progress guard: two invocations can overlap.
PlanFlowIds == {"first", "second"}
IdlePlanFlow == [pc |-> "idle", plan |-> NoPlan, dayOfWeek |-> 0, amount |-> 0]
\* The invocation ended in its catch block: the error alert is on screen.
AlertedPlanFlow == [IdlePlanFlow EXCEPT !.pc = "alerted"]

\* day_of_week: 0 = Monday .. 6 = Sunday
\* the days an event is entered for: Monday and Tuesday
EventDays    == {0, 1}
\* amount: parseFloat(newEventAmount) || 0
EventAmounts == {1, MaxAmount}

PlanEvent(id, planId, day, amount) ==
  [id |-> id, planId |-> planId, dayOfWeek |-> day, amount |-> amount]

\* storage.getWeeklyPlan(weekStart) for the selected week: the plan row with
\* its events, or null.
getWeeklyPlan ==
  IF dbWeeklyPlans = {} THEN NoPlan
  ELSE LET id == CHOOSE p \in dbWeeklyPlans : TRUE IN
       [id |-> id, events |-> {e \in dbPlanEvents : e.planId = id}]

\* ---- web CalendarView: the effect that loads the plan of the selected week
loadWeeklyPlan ==
  /\ weeklyPlan' = getWeeklyPlan
  /\ UNCHANGED <<webVars, iosVars, viewVars, legacyVars, fxVars, dbWeeklyPlans, dbPlanEvents,
                 planFlows, planNextId, iosWeeklyPlans, iosPlanNextId>>

\* ---- web CalendarView.handleAddEvent: `let plan = weeklyPlan`.  The
\* planner is rendered once a budget exists.
handleAddEvent(f, day, amount) ==
  /\ ctxBudget # NoBudget
  /\ planFlows[f].pc \in {"idle", "alerted"}
  /\ planFlows' = [planFlows EXCEPT ![f] =
        [pc |-> IF weeklyPlan = NoPlan THEN "p_get" ELSE "p_event",
         plan |-> weeklyPlan, dayOfWeek |-> day, amount |-> amount]]
  /\ UNCHANGED <<webVars, iosVars, viewVars, legacyVars, fxVars, dbWeeklyPlans, dbPlanEvents,
                 weeklyPlan, planNextId, iosWeeklyPlans, iosPlanNextId>>

\* createOrGetWeeklyPlan: `existingPlan = await this.getWeeklyPlan(weekStart)`
planLookedUp(f) ==
  /\ planFlows[f].pc = "p_get"
  /\ planFlows' = [planFlows EXCEPT
        ![f].pc = IF getWeeklyPlan = NoPlan THEN "p_insert" ELSE "p_event",
        ![f].plan = getWeeklyPlan]
  /\ UNCHANGED <<webVars, iosVars, viewVars, legacyVars, fxVars, dbWeeklyPlans, dbPlanEvents,
                 weeklyPlan, planNextId, iosWeeklyPlans, iosPlanNextId>>

\* createOrGetWeeklyPlan: the insert into weekly_plans, which the constraint
\* UNIQUE(user_id, week_start) admits only when the week has no row.
planInserted(f) ==
  /\ planFlows[f].pc = "p_insert"
  /\ dbWeeklyPlans = {}
  /\ planNextId <= MaxPlanRows
  /\ dbWeeklyPlans' = {planNextId}
  /\ planNextId' = planNextId + 1
  /\ planFlows' = [planFlows EXCEPT
        ![f].pc = "p_event",
        ![f].plan = [id |-> planNextId, events |-> {}]]
  /\ UNCHANGED <<webVars, iosVars, viewVars, legacyVars, fxVars, dbPlanEvents, weeklyPlan,
                 iosWeeklyPlans, iosPlanNextId>>

\* The insert is rejected by UNIQUE(user_id, week_start), the week having a
\* row by now: `if (error) throw error`, and handleAddEvent shows
\* alert('Error adding event. Please try again.') and returns.
planInsertRejected(f) ==
  /\ planFlows[f].pc = "p_insert"
  /\ dbWeeklyPlans # {}
  /\ planFlows' = [planFlows EXCEPT ![f] = AlertedPlanFlow]
  /\ UNCHANGED <<webVars, iosVars, viewVars, legacyVars, fxVars, dbWeeklyPlans, dbPlanEvents,
                 weeklyPlan, planNextId, iosWeeklyPlans, iosPlanNextId>>

\* The insert request fails: the same throw and alert.
planInsertFailed(f) ==
  /\ planFlows[f].pc = "p_insert"
  /\ planFlows' = [planFlows EXCEPT ![f] = AlertedPlanFlow]
  /\ UNCHANGED <<webVars, iosVars, viewVars, legacyVars, fxVars, dbWeeklyPlans, dbPlanEvents,
                 weeklyPlan, planNextId, iosWeeklyPlans, iosPlanNextId>>

\* A variant that books the amount of the new event as planned spending of
\* the budget.
eventInsertedAsPlanned(f) ==
  /\ planFlows[f].pc = "p_event"
  /\ planFlows[f].plan.id \in dbWeeklyPlans
  /\ planNextId <= MaxPlanRows
  /\ LET plan     == planFlows[f].plan
         newEvent == PlanEvent(planNextId, plan.id, planFlows[f].dayOfWeek,
                               planFlows[f].amount) IN
     /\ dbPlanEvents' = dbPlanEvents \cup {newEvent}
     /\ weeklyPlan' = [plan EXCEPT !.events = plan.events \cup {newEvent}]
     /\ dbBudget' = [dbBudget EXCEPT !.plannedSpending = @ + newEvent.amount]
  /\ planNextId' = planNextId + 1
  /\ planFlows' = [planFlows EXCEPT ![f] = IdlePlanFlow]
  /\ UNCHANGED <<dbExpenses, dbTrips, dbWishlist, ctxBudget, ctxExpenses,
                 ctxTrips, ctxWishlist, pendingExpense, isSaving, flows,
                 inflight, nextId, iosVars, viewVars, legacyVars, fxVars, dbWeeklyPlans,
                 iosWeeklyPlans, iosPlanNextId>>

\* storage.addWeeklyPlanEvent(plan.id, ...) and setWeeklyPlan(updatedPlan);
\* plan_id references weekly_plans(id).
eventInserted(f) ==
  /\ planFlows[f].pc = "p_event"
  /\ planFlows[f].plan.id \in dbWeeklyPlans
  /\ planNextId <= MaxPlanRows
  /\ LET plan     == planFlows[f].plan
         newEvent == PlanEvent(planNextId, plan.id, planFlows[f].dayOfWeek,
                               planFlows[f].amount) IN
     /\ dbPlanEvents' = dbPlanEvents \cup {newEvent}
     /\ weeklyPlan' = [plan EXCEPT !.events = plan.events \cup {newEvent}]
  /\ planNextId' = planNextId + 1
  /\ planFlows' = [planFlows EXCEPT ![f] = IdlePlanFlow]
  /\ UNCHANGED <<webVars, iosVars, viewVars, legacyVars, fxVars, dbWeeklyPlans,
                 iosWeeklyPlans, iosPlanNextId>>

eventInsertFailed(f) ==
  /\ planFlows[f].pc = "p_event"
  /\ planFlows' = [planFlows EXCEPT ![f] = AlertedPlanFlow]
  /\ UNCHANGED <<webVars, iosVars, viewVars, legacyVars, fxVars, dbWeeklyPlans, dbPlanEvents,
                 weeklyPlan, planNextId, iosWeeklyPlans, iosPlanNextId>>

\* ---- web CalendarView.handleDeleteEvent(eventId), the request succeeding
handleDeleteEvent(e) ==
  /\ ctxBudget # NoBudget
  /\ weeklyPlan # NoPlan
  /\ e \in weeklyPlan.events
  /\ dbPlanEvents' = {x \in dbPlanEvents : x.id # e.id}
  /\ weeklyPlan' = [weeklyPlan EXCEPT
                      !.events = {x \in weeklyPlan.events : x.id # e.id}]
  /\ UNCHANGED <<webVars, iosVars, viewVars, legacyVars, fxVars, dbWeeklyPlans, planFlows,
                 planNextId, iosWeeklyPlans, iosPlanNextId>>

\* ---- storage.updateWeeklyPlanEvent(eventId, {amount})
updateWeeklyPlanEvent(e, amount) ==
  /\ e \in dbPlanEvents
  /\ dbPlanEvents' = (dbPlanEvents \ {e}) \cup {[e EXCEPT !.amount = amount]}
  /\ UNCHANGED <<webVars, iosVars, viewVars, legacyVars, fxVars, dbWeeklyPlans, weeklyPlan,
                 planFlows, planNextId, iosWeeklyPlans, iosPlanNextId>>

\* ---- storage.deleteWeeklyPlan(planId): the events go with the plan
\* (ON DELETE CASCADE)
deleteWeeklyPlan(planId) ==
  /\ planId \in dbWeeklyPlans
  /\ dbWeeklyPlans' = dbWeeklyPlans \ {planId}
  /\ dbPlanEvents' = {e \in dbPlanEvents : e.planId # planId}
  /\ UNCHANGED <<webVars, iosVars, viewVars, legacyVars, fxVars, weeklyPlan, planFlows,
                 planNextId, iosWeeklyPlans, iosPlanNextId>>

\* ---- iOS CalendarTabView.currentWeeklyPlan: weeklyPlans.first { ... }
iosCurrentWeeklyPlan ==
  IF iosWeeklyPlans = {} THEN NoPlan
  ELSE CHOOSE p \in iosWeeklyPlans :
         \A q \in iosWeeklyPlans : p.id <= q.id

\* ---- iOS AddWeeklyEventView.addEvent, with existingPlan the current plan
iosAddEvent(day, amount) ==
  /\ iosBudget # NoBudget
  /\ LET existing == iosCurrentWeeklyPlan
         plan     == IF existing # NoPlan THEN existing
                     ELSE [id |-> iosPlanNextId, events |-> {}]
         eventId  == IF existing # NoPlan THEN iosPlanNextId
                     ELSE iosPlanNextId + 1
         event    == PlanEvent(eventId, plan.id, day, amount) IN
     /\ eventId <= MaxPlanRows
     /\ iosWeeklyPlans' = (iosWeeklyPlans \ {existing}) \cup
                            {[plan EXCEPT !.events = plan.events \cup {event}]}
     /\ iosPlanNextId' = eventId + 1
  /\ UNCHANGED <<webVars, iosVars, viewVars, legacyVars, fxVars, dbWeeklyPlans, dbPlanEvents,
                 weeklyPlan, planFlows, planNextId>>

\* ---- iOS CalendarTabView.deleteEvent
iosDeleteEvent(plan, event) ==
  /\ iosBudget # NoBudget
  /\ plan \in iosWeeklyPlans
  /\ event \in plan.events
  /\ iosWeeklyPlans' = (iosWeeklyPlans \ {plan}) \cup
                         {[plan EXCEPT !.events = plan.events \ {event}]}
  /\ UNCHANGED <<webVars, iosVars, viewVars, legacyVars, fxVars, dbWeeklyPlans, dbPlanEvents,
                 weeklyPlan, planFlows, planNextId, iosPlanNextId>>


\* ============================================================ calendar ====
\* An exact quotient n / d of the floating-point divisions; d = 0 is the
\* division by zero (Infinity or NaN in both languages).
Quotient(n, d) == [num |-> n, den |-> d]
Times7(q)      == [num |-> q.num * 7, den |-> q.den]
Zero           == Quotient(0, 1)
IsFinite(q)    == q.den # 0
IsZero(q)      == q.den # 0 /\ q.num = 0
\* q = n / d as numbers
EqualsRatio(q, n, d) == q.den # 0 /\ d # 0 /\ q.num * d = n * q.den

Max(a, b) == IF a >= b THEN a ELSE b

\* ---- web Dashboard.handleSaveBudget, when storage.saveBudget succeeds:
\* the form requires the two dates to be filled in and nothing more.
savedBudget(budget, mode, limit) ==
  [budgetMode |-> mode,
   semesterBudget |-> IF mode = "tracking" THEN 0 ELSE limit,
   spent |-> budget.spent,
   plannedSpending |-> budget.plannedSpending]

handleSaveBudget(mode, limit, period) ==
  /\ dbBudget' = savedBudget(ctxBudget, mode, limit)
  /\ ctxBudget' = savedBudget(ctxBudget, mode, limit)
  /\ budgetPeriod' = period
  /\ UNCHANGED <<dbExpenses, dbTrips, dbWishlist, ctxExpenses, ctxTrips,
                 ctxWishlist, pendingExpense, isSaving, flows, inflight,
                 nextId, iosVars, planVars, legacyVars, fxVars,
                 today, iosPeriod, webIncludeWishlist>>

\* setIncludeWishlist(e.target.checked) of the web views.
toggleIncludeWishlist ==
  /\ webIncludeWishlist' = ~webIncludeWishlist
  /\ UNCHANGED <<webVars, iosVars, planVars, legacyVars, fxVars,
                 today, budgetPeriod, iosPeriod>>

\* startOfDay(new Date()) / Calendar.current.startOfDay(for: Date()) a day
\* later.
dayPasses ==
  /\ today < MaxDay
  /\ today' = today + 1
  /\ UNCHANGED <<webVars, iosVars, planVars, legacyVars, fxVars,
                 budgetPeriod, iosPeriod, webIncludeWishlist>>

\* ---- web CalendarView
calRemainingBudgetWithWishlist ==
  IF calHasLimit
  THEN IF ctxBudget.budgetMode = "remaining"
       THEN ctxBudget.semesterBudget - SumPlanned(ctxTrips)
              - SumEstimated(ctxWishlist)
       ELSE ctxBudget.semesterBudget - ctxBudget.spent - SumPlanned(ctxTrips)
              - SumEstimated(ctxWishlist)
  ELSE 0

calRemainingDays ==
  IF today < budgetPeriod.startDate
  THEN (budgetPeriod.endDate - budgetPeriod.startDate) + 1
  ELSE IF today > budgetPeriod.endDate
       THEN 1
       ELSE (budgetPeriod.endDate - today) + 1

calDailyBudget ==
  IF calHasLimit THEN Quotient(calRemainingBudget, calRemainingDays) ELSE Zero
calDailyBudgetWithWishlist ==
  IF calHasLimit
  THEN Quotient(calRemainingBudgetWithWishlist, calRemainingDays)
  ELSE Zero
calWeeklyBudget == Times7(calDailyBudget)
calWeeklyBudgetWithWishlist == Times7(calDailyBudgetWithWishlist)

\* The figures shown: includeWishlist ? ...WithWishlist : ...
calShownRemaining ==
  IF webIncludeWishlist THEN calRemainingBudgetWithWishlist
                        ELSE calRemainingBudget
calShownDaily ==
  IF webIncludeWishlist THEN calDailyBudgetWithWishlist ELSE calDailyBudget
calShownWeekly ==
  IF webIncludeWishlist THEN calWeeklyBudgetWithWishlist ELSE calWeeklyBudget

\* ---- iOS CalendarTabView
iosRemainingDays ==
  IF iosBudget = NoBudget THEN 1
  ELSE Max((iosPeriod.endDate - today) + 1, 1)
iosDailyBudget ==
  IF iosBudget = NoBudget \/ iosMode(iosBudget) = "tracking"
  THEN Zero
  ELSE Quotient(iosCalRemainingBudget(iosIncludeWishlist), iosRemainingDays)
iosWeeklyBudget == Times7(iosDailyBudget)

\* ---- web CalendarView: the totals of the weekly planner and the week
\* summary
getEventsForDay(dayOfWeek) ==
  IF weeklyPlan = NoPlan THEN {}
  ELSE {e \in weeklyPlan.events : e.dayOfWeek = dayOfWeek}
getDayTotal(dayOfWeek) == SumAmount(getEventsForDay(dayOfWeek))
getWeekTotal ==
  IF weeklyPlan = NoPlan THEN 0 ELSE SumAmount(weeklyPlan.events)
\* A variant that reports how far the plan is above the weekly budget.
calDifferenceReversed ==
  Quotient(getWeekTotal * calShownWeekly.den - calShownWeekly.num,
           calShownWeekly.den)
\* difference = actualWeeklyBudget - plannedTotal
calDifference ==
  Quotient(calShownWeekly.num - getWeekTotal * calShownWeekly.den,
           calShownWeekly.den)

\* ---- iOS WeeklyPlan.totalPlanned / totalForDay and the week summary
iosTotalPlannedOf(plan) == SumAmount(plan.events)
iosTotalForDay(plan, dayOfWeek) ==
  SumAmount({e \in plan.events : e.dayOfWeek = dayOfWeek})
iosPlannedTotal ==
  IF iosCurrentWeeklyPlan = NoPlan THEN 0
  ELSE iosTotalPlannedOf(iosCurrentWeeklyPlan)
iosDifference ==
  Quotient(iosWeeklyBudget.num - iosPlannedTotal * iosWeeklyBudget.den,
           iosWeeklyBudget.den)

\* ================================================= localStorage client ====
\* The first client keeps its data in localStorage (utils/localStorage) and
\* shows the even-split weekly view of utils/budgetCalculations.  A date is
\* a day number and day 1 is a Monday; parseISO gives the midnight that
\* starts the day, and all the days have 24 hours.
LegacyDays  == 1..(7 * MaxWeeks)
LegacyCosts == {0, 1}

\* storage.getBudget() of an empty store is null
NoLegacyBudget == [semesterBudget |-> 0, startDate |-> 0, endDate |-> 0,
                   spent |-> 0]

LegacyTrip(start, end, estimated, actual) ==
  [id |-> 1, startDate |-> start, endDate |-> end,
   estimatedCost |-> estimated, actualCost |-> actual]

LegacyExpense(id, amount, date) == [id |-> id, amount |-> amount, date |-> date]

\* q1 + q2 and q1 - q2 of two quotients
Plus(q1, q2)  == Quotient(q1.num * q2.den + q2.num * q1.den, q1.den * q2.den)
Minus(q1, q2) == Quotient(q1.num * q2.den - q2.num * q1.den, q1.den * q2.den)

\* Math.ceil(n / d) for n >= 0, d > 0
Ceil(n, d) == (n + d - 1) \div d

\* the weeks, numbered from 1: week w is Monday 7w - 6 to Sunday 7w
WeekOf(day)     == ((day - 1) \div 7) + 1
weekStartDay(w) == 7 * w - 6
weekEndDay(w)   == 7 * w

\* eachWeekOfInterval({start, end}, {weekStartsOn: 1}), for start <= end
eachWeekOfInterval(start, end) == WeekOf(start)..WeekOf(end)

\* isWithinInterval(date, {start: weekStart, end: weekEnd}): weekEnd is the
\* last millisecond of the Sunday
isWithinWeek(day, w) == weekStartDay(w) <= day /\ day <= weekEndDay(w)

\* trip.actualCost || trip.estimatedCost: a missing or zero actualCost is falsy
legacyCost(trip) ==
  IF trip.actualCost # 0 THEN trip.actualCost ELSE trip.estimatedCost

\* the test of the reduce over trips: tripEnd >= weekEnd compares a midnight
\* with the last millisecond of the Sunday, so the trip ends after the Sunday
tripOverlapsWeek(trip, w) ==
  \/ isWithinWeek(trip.startDate, w)
  \/ isWithinWeek(trip.endDate, w)
  \/ (trip.startDate <= weekStartDay(w) /\ trip.endDate > weekEndDay(w))

tripDuration(trip) == Max(1, trip.endDate - trip.startDate)
\* the weeks of a trip had the calendar days, both ends included, been counted
weeksInTripInclusive(trip) == Ceil(tripDuration(trip) + 1, 7)
weeksInTrip(trip)  == Ceil(tripDuration(trip), 7)
costPerWeek(trip)  == Quotient(legacyCost(trip), weeksInTrip(trip))

RECURSIVE tripSpent(_, _)
tripSpent(trips, w) ==
  IF trips = {} THEN Zero
  ELSE LET trip == CHOOSE t \in trips : TRUE
           rest == tripSpent(trips \ {trip}, w)
       IN IF tripOverlapsWeek(trip, w) THEN Plus(rest, costPerWeek(trip))
          ELSE rest

expenseSpent(expenses, w) ==
  SumAmount({e \in expenses : isWithinWeek(e.date, w)})

NoWeeks == [w \in {} |-> Zero]

calculateWeeklyBudgets(budget, trips, expenses) ==
  IF budget.startDate = 0 \/ budget.endDate = 0 THEN NoWeeks
  ELSE LET weeks == eachWeekOfInterval(budget.startDate, budget.endDate)
           weeklyBudgetAmount ==
             Quotient(budget.semesterBudget, Cardinality(weeks))
           weekSpent(w) ==
             Plus(tripSpent(trips, w), Quotient(expenseSpent(expenses, w), 1))
       IN [w \in weeks |->
             [budget |-> weeklyBudgetAmount,
              spent |-> weekSpent(w),
              remaining |-> Minus(weeklyBudgetAmount, weekSpent(w))]]

\* storage.calculateTotalSpent
calculateTotalSpent(trips, expenses) ==
  LET RECURSIVE costs(_)
      costs(S) == IF S = {} THEN 0
                  ELSE LET t == CHOOSE x \in S : TRUE
                       IN legacyCost(t) + costs(S \ {t})
  IN costs(trips) + SumAmount(expenses)

\* the tail of storage.addExpense and storage.deleteExpense
budgetWithSpent(budget, trips, expenses) ==
  IF budget = NoLegacyBudget THEN budget
  ELSE [budget EXCEPT !.spent = calculateTotalSpent(trips, expenses)]

\* the reload that ends loadData, handleAddExpense and handleDeleteExpense:
\* without a budget the weeklyBudgets state keeps its value.  The budget,
\* trips and expenses states of the component are copies of the store made
\* by the same reload and are read from the store here.
reloaded(budget, trips, expenses) ==
  IF budget # NoLegacyBudget
  THEN calculateWeeklyBudgets(budget, trips, expenses)
  ELSE weeklyBudgets

\* ---- Dashboard.loadData (on mount, on storage events and every second)
loadData ==
  /\ weeklyBudgets' = reloaded(lsBudget, lsTrips, lsExpenses)
  /\ UNCHANGED <<webVars, iosVars, viewVars, planVars, fxVars,
                 lsBudget, lsTrips, lsExpenses,
                 recommendations>>

\* ---- Dashboard.handleAddExpense with storage.addExpense; the id is
\* Date.now(), a fresh one
legacyAddExpense(id, amount, date) ==
  /\ lsBudget # NoLegacyBudget       \* the form is rendered with a budget
  /\ \A e \in lsExpenses : e.id # id
  /\ LET expenses == lsExpenses \cup {LegacyExpense(id, amount, date)}
         budget == budgetWithSpent(lsBudget, lsTrips, expenses)
     IN /\ lsExpenses' = expenses
        /\ lsBudget' = budget
        /\ weeklyBudgets' = reloaded(budget, lsTrips, expenses)
  /\ UNCHANGED <<webVars, iosVars, viewVars, planVars, fxVars, lsTrips,
                 recommendations>>

\* ---- Dashboard.handleDeleteExpense, confirmed, with storage.deleteExpense
legacyDeleteExpense(expense) ==
  /\ lsBudget # NoLegacyBudget
  /\ LET expenses == {e \in lsExpenses : e.id # expense.id}
         budget == budgetWithSpent(lsBudget, lsTrips, expenses)
     IN /\ lsExpenses' = expenses
        /\ lsBudget' = budget
        /\ weeklyBudgets' = reloaded(budget, lsTrips, expenses)
  /\ UNCHANGED <<webVars, iosVars, viewVars, planVars, fxVars, lsTrips,
                 recommendations>>

\* ---- utils/budgetCalculations: the recommendations.  A recommendation is
\* named by its rule; the comparisons are exact.
calculateRemainingBudget(budget, trips, expenses) ==
  budget.semesterBudget - calculateTotalSpent(trips, expenses)

\* getCurrentWeekBudget: the entry of the week of today, as a set that is
\* empty when find returns nothing (null)
getCurrentWeekBudget(weeklies) ==
  {weeklies[w] : w \in DOMAIN weeklies \cap {WeekOf(today)}}

\* remaining < 0, for a quotient with a positive denominator
IsNegative(q) == q.num < 0
\* remaining < budget * 0.2
IsBelowFifth(remaining, budget) ==
  5 * remaining.num * budget.den < budget.num * remaining.den

\* the first rule had its second test not been an else branch
overallRuleIndependent(remaining, limit) ==
  (IF remaining < 0 THEN <<"overBudget">> ELSE <<>>)
    \o (IF remaining * 10 < limit THEN <<"lowBalance">> ELSE <<>>)
overallRule(remaining, limit) ==
  IF remaining < 0 THEN <<"overBudget">>
  ELSE IF remaining * 10 < limit THEN <<"lowBalance">>
       ELSE <<>>

weekRule(currentWeek) ==
  IF \E w \in currentWeek : IsNegative(w.remaining) THEN <<"overWeek">>
  ELSE IF \E w \in currentWeek : IsBelowFifth(w.remaining, w.budget)
       THEN <<"lowWeek">>
       ELSE <<>>

\* a trip is upcoming when its first day starts after now
upcomingRule(trips, remaining) ==
  LET upcomingTrips == {trip \in trips : trip.startDate > today}
      totalUpcomingCost == calculateTotalSpent(upcomingTrips, {})
  IN IF upcomingTrips # {} /\ totalUpcomingCost > remaining
     THEN <<"upcomingTrips">>
     ELSE <<>>

\* the list had the affirmation been pushed whatever the list holds
alwaysAffirmed(recs) == Append(recs, "affirmation")
affirmed(recs) == IF Len(recs) = 0 THEN <<"affirmation">> ELSE recs

getRecommendations(budget, trips, weeklies, expenses) ==
  LET remaining == calculateRemainingBudget(budget, trips, expenses)
  IN affirmed(overallRule(remaining, budget.semesterBudget)
                \o weekRule(getCurrentWeekBudget(weeklies))
                \o upcomingRule(trips, remaining))

\* ---- getRecommendations called with the budget, trips, weekly budgets
\* and expenses the Dashboard holds
recommend ==
  /\ lsBudget # NoLegacyBudget
  /\ recommendations' =
       getRecommendations(lsBudget, lsTrips, weeklyBudgets, lsExpenses)
  /\ UNCHANGED <<webVars, iosVars, viewVars, planVars, fxVars,
                 lsBudget, lsTrips, lsExpenses, weeklyBudgets>>

\* ================================================= iOS exchange rates ====
\* ExchangeRateService (a @MainActor singleton).  A rate is counted in
\* hundredths of a dollar per euro; a date is its day number and 0 stands
\* for nil.
FallbackRate == 108
Rates        == {FallbackRate + 1, FallbackRate + 2}
FetchIds     == {"first", "second"}
NoError      == "nil"
NoCachedRate == [rate |-> 0, date |-> 0]

\* shouldFetchNewRate: no lastUpdated, or one that is not in today
shouldFetchNewRate == lastUpdated = 0 \/ lastUpdated # today

\* ---- fetchRate up to its await; the URL literal is always valid
fetchRate(f) ==
  /\ rateFetches[f] = "idle"
  /\ IF shouldFetchNewRate
     THEN /\ rateRequests[today] < MaxRequests
          /\ isLoading' = TRUE
          /\ error' = NoError
          /\ rateFetches' = [rateFetches EXCEPT ![f] = "awaiting"]
          /\ rateRequests' = [rateRequests EXCEPT ![today] = @ + 1]
     ELSE UNCHANGED <<isLoading, error, rateFetches, rateRequests>>
  /\ UNCHANGED <<webVars, iosVars, viewVars, planVars, legacyVars,
                 eurToUsd, lastUpdated, cachedRate>>

\* ---- the response is a 200 whose rates hold "USD": the rate is taken,
\* dated and cached
rateReceived(f, rate) ==
  /\ rateFetches[f] = "awaiting"
  /\ eurToUsd' = rate
  /\ lastUpdated' = today
  /\ cachedRate' = [rate |-> rate, date |-> today]
  /\ isLoading' = FALSE
  /\ rateFetches' = [rateFetches EXCEPT ![f] = "idle"]
  /\ UNCHANGED <<webVars, iosVars, viewVars, planVars, legacyVars,
                 error, rateRequests>>

\* ---- the response is a 200 that decodes but its rates hold no "USD"
rateMissing(f) ==
  /\ rateFetches[f] = "awaiting"
  /\ isLoading' = FALSE
  /\ rateFetches' = [rateFetches EXCEPT ![f] = "idle"]
  /\ UNCHANGED <<webVars, iosVars, viewVars, planVars, legacyVars,
                 eurToUsd, lastUpdated, cachedRate, error, rateRequests>>

\* ---- the response is not a 200 ("Server error"), or the request or the
\* decoding throws ("Failed to fetch rate: ...")
rateFailed(f, message) ==
  /\ rateFetches[f] = "awaiting"
  /\ error' = message
  /\ isLoading' = FALSE
  /\ rateFetches' = [rateFetches EXCEPT ![f] = "idle"]
  /\ UNCHANGED <<webVars, iosVars, viewVars, planVars, legacyVars,
                 eurToUsd, lastUpdated, cachedRate, rateRequests>>

\* ---- the app is started again: init() with loadCachedRate; the calls of
\* the previous run are gone
relaunch ==
  /\ eurToUsd' = IF cachedRate # NoCachedRate THEN cachedRate.rate
                 ELSE FallbackRate
  /\ lastUpdated' = cachedRate.date
  /\ isLoading' = FALSE
  /\ error' = NoError
  /\ rateFetches' = [f \in FetchIds |-> "idle"]
  /\ UNCHANGED <<webVars, iosVars, viewVars, planVars, legacyVars,
                 cachedRate, rateRequests>>

\* convertToUSD(euros:includeTransactionFee:), an exact quotient
\* the conversion had the 3% fee been charged whether asked for or not
convertToUSDWithFee(euros, includeTransactionFee) ==
  Quotient(euros * eurToUsd * 103, 100 * 100)
convertToUSD(euros, includeTransactionFee) ==
  IF includeTransactionFee
  THEN Quotient(euros * eurToUsd * 103, 100 * 100)
  ELSE Quotient(euros * eurToUsd, 100)

\* AddExpenseView.expenseAmountUSD and balanceAmountUSD (the same body)
expenseAmountUSD(value, currency, includeTransactionFee) ==
  IF value <= 0 THEN Zero
  ELSE IF currency = "EUR" THEN convertToUSD(value, includeTransactionFee)
       ELSE Quotient(value, 1)

\* ================================================== web trips table ====
\* A row of the trips table with its new and its legacy cost columns; a
\* null actual_cost is written 0 (addTrip and updateTrip store an
\* actual_cost only when it is above zero).
TripIds   == {1, 2}
TripCosts == 0..MaxAmount
\* a field that an update does not supply (undefined)
Undefined == 0 - 1

TripRow(id, prepaid, planned, estimated, actual) ==
  [id |-> id, prepaidCost |-> prepaid, plannedCost |-> planned,
   estimatedCost |-> estimated, actualCost |-> actual]

\* ---- storage.addTrip
addTrip(id, prepaid, planned) ==
  /\ \A t \in dbTrips : t.id # id
  /\ dbTrips' = dbTrips \cup
       {TripRow(id, prepaid, planned, prepaid + planned,
                IF prepaid > 0 THEN prepaid ELSE 0)}
  /\ UNCHANGED <<dbBudget, dbExpenses, dbWishlist, ctxBudget, ctxExpenses,
                 ctxTrips, ctxWishlist, pendingExpense, isSaving, flows,
                 inflight, nextId, iosVars, extVars>>

\* ---- storage.updateTrip(id, updates), updates a Partial<Trip>
updatedRow(row, prepaidCost, plannedCost) ==
  LET costs == [row EXCEPT
                  !.prepaidCost = IF prepaidCost # Undefined THEN prepaidCost
                                  ELSE @,
                  !.plannedCost = IF plannedCost # Undefined THEN plannedCost
                                  ELSE @]
      prepaid == IF prepaidCost # Undefined THEN prepaidCost ELSE 0
      planned == IF plannedCost # Undefined THEN plannedCost ELSE 0
  IN IF prepaidCost # Undefined \/ plannedCost # Undefined
     THEN [costs EXCEPT !.estimatedCost = prepaid + planned,
                        !.actualCost = IF prepaid > 0 THEN prepaid ELSE 0]
     ELSE costs

updateTrip(row, prepaidCost, plannedCost) ==
  /\ row \in dbTrips
  /\ dbTrips' = (dbTrips \ {row}) \cup
                  {updatedRow(row, prepaidCost, plannedCost)}
  /\ UNCHANGED <<dbBudget, dbExpenses, dbWishlist, ctxBudget, ctxExpenses,
                 ctxTrips, ctxWishlist, pendingExpense, isSaving, flows,
                 inflight, nextId, iosVars, extVars>>

\* ---- storage.deleteTrip
deleteTrip(row) ==
  /\ row \in dbTrips
  /\ dbTrips' = dbTrips \ {row}
  /\ UNCHANGED <<dbBudget, dbExpenses, dbWishlist, ctxBudget, ctxExpenses,
                 ctxTrips, ctxWishlist, pendingExpense, isSaving, flows,
                 inflight, nextId, iosVars, extVars>>

\* ======================================================== behaviours ====
\* The user runs one of the two clients: a web account whose data has been
\* loaded (the iOS store is empty), or an iOS store with a budget (nobody is
\* signed in on the web).  A stored mode string "total" is what the web
\* client and earlier schemas write.
Modes == {"total", "remaining", "tracking"}

initialBudget(mode, limit, trips) ==
  [budgetMode |-> mode,
   semesterBudget |-> IF mode = "tracking" THEN 0 ELSE limit,
   spent |-> SumPrepaid(trips),
   plannedSpending |-> SumPlanned(trips)]

InitWeb ==
  /\ \E mode \in Modes, limit \in InitLimits, trips \in TripChoices :
       /\ dbBudget = initialBudget(mode, limit, trips)
       /\ dbTrips = trips
  /\ dbWishlist \in WishChoices
  /\ dbExpenses = {}
  /\ ctxBudget = dbBudget /\ ctxExpenses = dbExpenses
  /\ ctxTrips = dbTrips /\ ctxWishlist = dbWishlist
  /\ iosBudget = NoBudget /\ iosExpenses = {} /\ iosTrips = {} /\ iosWishlist = {}

InitIOS ==
  /\ \E mode \in Modes, limit \in InitLimits :
       iosBudget = [budgetMode |-> mode,
                    semesterBudget |-> IF mode = "tracking" THEN 0 ELSE limit,
                    spent |-> 0, plannedSpending |-> 0]
  /\ iosTrips \in TripChoices
  /\ iosWishlist \in WishChoices
  /\ iosExpenses = {}
  /\ dbBudget = NoBudget /\ dbExpenses = {} /\ dbTrips = {} /\ dbWishlist = {}
  /\ ctxBudget = NoBudget /\ ctxExpenses = {} /\ ctxTrips = {} /\ ctxWishlist = {}

\* The calendar on the first day of a period that spans all the days; the
\* checkbox of the web views starts unchecked (useState(false)).
InitView ==
  /\ today = 1
  /\ budgetPeriod = [startDate |-> 1, endDate |-> MaxDay]
  /\ iosPeriod = [startDate |-> 1, endDate |-> MaxDay]
  /\ webIncludeWishlist = FALSE

\* No weekly plan has been made and no planner handler is running.
InitPlanner ==
  /\ dbWeeklyPlans = {} /\ dbPlanEvents = {}
  /\ weeklyPlan = NoPlan
  /\ planFlows = [f \in PlanFlowIds |-> IdlePlanFlow]
  /\ planNextId = 1
  /\ iosWeeklyPlans = {} /\ iosPlanNextId = 1

\* Nothing is stored in localStorage and its Dashboard has computed nothing
\* (useState([])).
InitLegacy ==
  /\ lsBudget = NoLegacyBudget
  /\ lsTrips = {} /\ lsExpenses = {}
  /\ weeklyBudgets = NoWeeks
  /\ recommendations = <<>>

\* The exchange rate service as constructed on a first launch: the fallback
\* rate, nothing cached, no call running.
InitRates ==
  /\ eurToUsd = FallbackRate
  /\ lastUpdated = 0
  /\ isLoading = FALSE
  /\ error = NoError
  /\ cachedRate = NoCachedRate
  /\ rateFetches = [f \in FetchIds |-> "idle"]
  /\ rateRequests = [d \in Days |-> 0]

\* No handler is running and nothing has been entered yet.
InitHandlers ==
  /\ pendingExpense = 0
  /\ isSaving = FALSE
  /\ flows = [f \in FlowIds |-> IdleFlow]
  /\ inflight = {}
  /\ nextId = 1
  /\ iosNextId = 1
  /\ iosIncludeWishlist = FALSE

Init ==
  /\ InitWeb \/ InitIOS
  /\ InitHandlers
  /\ InitView
  /\ InitLegacy
  /\ InitRates
  /\ InitPlanner

Next ==
  \/ \E a \in Amounts : handleExpenseFormSubmit(a)
  \/ confirmExpense
  \/ cancelExpenseConfirm
  \/ \E w \in inflight : pendingSaveApplied(w)
  \/ \E w \in inflight : pendingSaveFailed(w)
  \/ addExpenseInserted
  \/ addExpenseFailed
  \/ \E b \in Balances : confirmUpdateBalance(b)
  \/ balanceExpenseInserted
  \/ balanceExpenseFailed
  \/ balanceBudgetSaved
  \/ balanceBudgetFailed
  \/ \E e \in ctxExpenses : handleDeleteExpense(e)
  \/ expenseDeleted
  \/ deleteExpenseFailed
  \/ \E f \in {"main", "delete"} : refreshRead(f)
  \/ \E f \in {"main", "delete"} : refreshCalculate(f)
  \/ \E f \in {"main", "delete"} : refreshSaved(f)
  \/ \E f \in {"main", "delete"} : refreshSaveFailed(f)
  \/ \E a \in 0..MaxAmount : iosAddExpense(a)
  \/ \E b \in Balances : iosUpdateBalance(b)
  \/ \E e \in iosExpenses : iosDeleteExpense(e)
  \/ \E m \in {"remaining", "tracking"}, b \in Balances :
       iosSaveBudget(m, b, iosPeriod)
  \/ iosToggleWishlist

Spec == Init /\ [][Next]_vars

\* ---- a budget stored with mode "total": expenses are recorded and deleted
InitTotal ==
  /\ Init
  /\ dbBudget # NoBudget => dbBudget.budgetMode = "total"
  /\ iosBudget # NoBudget => iosBudget.budgetMode = "total"

NextTotal ==
  \/ \E a \in Amounts : handleExpenseFormSubmit(a)
  \/ addExpenseInserted
  \/ addExpenseFailed
  \/ \E e \in ctxExpenses : handleDeleteExpense(e)
  \/ expenseDeleted
  \/ deleteExpenseFailed
  \/ \E f \in {"main", "delete"} : refreshRead(f)
  \/ \E f \in {"main", "delete"} : refreshCalculate(f)
  \/ \E f \in {"main", "delete"} : refreshSaved(f)
  \/ \E f \in {"main", "delete"} : refreshSaveFailed(f)
  \/ \E a \in 0..MaxAmount : iosAddExpense(a)
  \/ \E e \in iosExpenses : iosDeleteExpense(e)
  \/ iosToggleWishlist

SpecTotal == InitTotal /\ [][NextTotal]_vars

\* ---- balance updates alone, on either client
InitBalance ==
  /\ Init
  /\ dbBudget # NoBudget => dbBudget.budgetMode = "remaining"
  /\ iosBudget # NoBudget => iosMode(iosBudget) = "remaining"

NextBalance ==
  \/ \E b \in Balances : confirmUpdateBalance(b)
  \/ balanceExpenseInserted
  \/ balanceExpenseFailed
  \/ balanceBudgetSaved
  \/ balanceBudgetFailed
  \/ refreshRead("main")
  \/ refreshCalculate("main")
  \/ refreshSaved("main")
  \/ refreshSaveFailed("main")
  \/ \E b \in Balances : iosUpdateBalance(b)

SpecBalance == InitBalance /\ [][NextBalance]_vars

\* ---- Remaining mode, every request succeeds: expenses are recorded and
\* deleted
InitLedger ==
  /\ Init
  /\ dbBudget # NoBudget => dbBudget.budgetMode = "remaining"
  /\ iosBudget # NoBudget => iosBudget.budgetMode = "remaining"

NextLedger ==
  \/ \E a \in Amounts : handleExpenseFormSubmit(a)
  \/ confirmExpense
  \/ cancelExpenseConfirm
  \/ \E w \in inflight : pendingSaveApplied(w)
  \/ addExpenseInserted
  \/ \E e \in ctxExpenses : handleDeleteExpense(e)
  \/ expenseDeleted
  \/ \E f \in {"main", "delete"} : refreshRead(f)
  \/ \E f \in {"main", "delete"} : refreshCalculate(f)
  \/ \E f \in {"main", "delete"} : refreshSaved(f)
  \/ \E a \in 0..MaxAmount : iosAddExpense(a)
  \/ \E e \in iosExpenses : iosDeleteExpense(e)

SpecLedger == InitLedger /\ [][NextLedger]_vars

\* ---- the calendar: both clients hold a budget whose period was entered
\* with periodEnd >= periodStart; days pass, budgets are saved again, the
\* wishlist checkboxes are toggled
InitCalendar ==
  /\ \E mode \in Modes, limit \in InitLimits, trips \in TripChoices :
       /\ dbBudget = initialBudget(mode, limit, trips)
       /\ dbTrips = trips
  /\ dbWishlist \in WishChoices
  /\ dbExpenses = {}
  /\ ctxBudget = dbBudget /\ ctxExpenses = dbExpenses
  /\ ctxTrips = dbTrips /\ ctxWishlist = dbWishlist
  /\ \E mode \in Modes, limit \in InitLimits :
       iosBudget = [budgetMode |-> mode,
                    semesterBudget |-> IF mode = "tracking" THEN 0 ELSE limit,
                    spent |-> 0, plannedSpending |-> 0]
  /\ iosTrips \in TripChoices
  /\ iosWishlist \in WishChoices
  /\ iosExpenses = {}
  /\ pendingExpense = 0 /\ isSaving = FALSE
  /\ flows = [f \in FlowIds |-> IdleFlow]
  /\ inflight = {} /\ nextId = 1 /\ iosNextId = 1
  /\ iosIncludeWishlist = FALSE /\ webIncludeWishlist = FALSE
  /\ today = 1
  /\ budgetPeriod \in {p \in Periods : p.endDate >= p.startDate}
  /\ iosPeriod = budgetPeriod
  /\ InitLegacy
  /\ InitRates
  /\ InitPlanner

NextCalendar ==
  \/ dayPasses
  \/ \E m \in Modes, l \in InitLimits, p \in Periods : handleSaveBudget(m, l, p)
  \/ \E m \in {"remaining", "tracking"}, b \in InitLimits, p \in Periods :
       iosSaveBudget(m, b, p)
  \/ toggleIncludeWishlist
  \/ iosToggleWishlist

SpecCalendar == InitCalendar /\ [][NextCalendar]_vars

\* ---- the wishlist: items are added, edited and removed and the wishlist
\* checkboxes are toggled, on either client.  On the web the budgets row
\* holds the sums of the trips the last completed refreshData saw: all of
\* the trips, or none when the write-back after adding them failed.
InitWebWishlist ==
  /\ \E mode \in Modes, limit \in InitLimits, trips \in TripChoices :
     \E seen \in {{}, trips} :
       /\ dbBudget = initialBudget(mode, limit, seen)
       /\ dbTrips = trips
  /\ dbWishlist \in WishChoices
  /\ dbExpenses = {}
  /\ ctxBudget = dbBudget /\ ctxExpenses = dbExpenses
  /\ ctxTrips = dbTrips /\ ctxWishlist = dbWishlist
  /\ iosBudget = NoBudget /\ iosExpenses = {} /\ iosTrips = {} /\ iosWishlist = {}

InitWishlist ==
  /\ InitWebWishlist \/ InitIOS
  /\ InitHandlers
  /\ InitView
  /\ InitLegacy
  /\ InitRates
  /\ InitPlanner

NextWishlist ==
  \/ \E id \in WishIds, c \in WishCosts : handleWishlistSubmit(id, c)
  \/ \E i \in ctxWishlist : handleWishlistDelete(i)
  \/ wishlistWritten
  \/ wishlistWriteFailed
  \/ refreshRead("wish")
  \/ refreshCalculate("wish")
  \/ refreshSaved("wish")
  \/ refreshSaveFailed("wish")
  \/ toggleIncludeWishlist
  \/ \E id \in WishIds, c \in WishCosts : iosSaveItem(id, c)
  \/ \E i \in iosWishlist : iosDeleteItem(i)
  \/ iosToggleWishlist

SpecWishlist == InitWishlist /\ [][NextWishlist]_vars

\* ---- the weekly planner of one week beside a Remaining-mode budget, on
\* either client: events are added one at a time, changed and deleted, the
\* plan is deleted and loaded again
NextPlanner ==
  \/ loadWeeklyPlan
  \/ \E d \in EventDays, a \in EventAmounts : handleAddEvent("first", d, a)
  \/ planLookedUp("first")
  \/ planInserted("first")
  \/ planInsertFailed("first")
  \/ eventInserted("first")
  \/ eventInsertFailed("first")
  \/ \E e \in weeklyPlan.events : handleDeleteEvent(e)
  \/ \E e \in dbPlanEvents, a \in EventAmounts : updateWeeklyPlanEvent(e, a)
  \/ \E p \in dbWeeklyPlans : deleteWeeklyPlan(p)
  \/ \E d \in EventDays, a \in EventAmounts : iosAddEvent(d, a)
  \/ \E p \in iosWeeklyPlans : \E e \in p.events : iosDeleteEvent(p, e)

SpecPlanner == InitLedger /\ [][NextPlanner]_vars

\* ---- the week summary: the plan of the week already holds two Monday
\* events; events are added and deleted and the wishlist checkbox is
\* toggled, beside a Remaining-mode budget on either client
PlannedEvents(planId) ==
  {PlanEvent(1, planId, 0, MaxAmount), PlanEvent(2, planId, 0, 1)}

InitWeek ==
  /\ InitWeb \/ InitIOS
  /\ dbBudget # NoBudget => dbBudget.budgetMode = "remaining"
  /\ iosBudget # NoBudget => iosBudget.budgetMode = "remaining"
  /\ InitHandlers
  /\ InitView
  /\ InitLegacy
  /\ InitRates
  /\ planFlows = [f \in PlanFlowIds |-> IdlePlanFlow]
  /\ planNextId = 3 /\ iosPlanNextId = 3
  /\ LET planId == MaxPlanRows + 1 IN
     IF dbBudget # NoBudget
     THEN /\ dbWeeklyPlans = {planId}
          /\ dbPlanEvents = PlannedEvents(planId)
          /\ weeklyPlan = [id |-> planId, events |-> PlannedEvents(planId)]
          /\ iosWeeklyPlans = {}
     ELSE /\ dbWeeklyPlans = {} /\ dbPlanEvents = {}
          /\ weeklyPlan = NoPlan
          /\ iosWeeklyPlans =
               {[id |-> planId, events |-> PlannedEvents(planId)]}

NextWeek ==
  \/ loadWeeklyPlan
  \/ \E d \in EventDays, a \in EventAmounts : handleAddEvent("first", d, a)
  \/ eventInserted("first")
  \/ eventInsertFailed("first")
  \/ \E e \in weeklyPlan.events : handleDeleteEvent(e)
  \/ \E d \in EventDays, a \in EventAmounts : iosAddEvent(d, a)
  \/ \E p \in iosWeeklyPlans : \E e \in p.events : iosDeleteEvent(p, e)
  \/ toggleIncludeWishlist
  \/ iosToggleWishlist

SpecWeek == InitWeek /\ [][NextWeek]_vars

\* ---- two overlapping handleAddEvent invocations on the web (a second
\* click, a second tab) and events added on iOS, no request failing
NextOverlap ==
  \/ \E f \in PlanFlowIds, d \in EventDays, a \in EventAmounts :
       handleAddEvent(f, d, a)
  \/ \E f \in PlanFlowIds : planLookedUp(f)
  \/ \E f \in PlanFlowIds : planInserted(f)
  \/ \E f \in PlanFlowIds : planInsertRejected(f)
  \/ \E f \in PlanFlowIds : eventInserted(f)
  \/ \E d \in EventDays, a \in EventAmounts : iosAddEvent(d, a)

SpecOverlap == InitLedger /\ [][NextOverlap]_vars

\* ---- the even-split weekly view of the localStorage client: a budget over
\* the weeks of the calendar and one trip with any start and end day, with
\* or without an actual cost; nobody uses the other two clients.
InitSignedOut ==
  /\ dbBudget = NoBudget /\ dbExpenses = {} /\ dbTrips = {} /\ dbWishlist = {}
  /\ ctxBudget = NoBudget /\ ctxExpenses = {} /\ ctxTrips = {} /\ ctxWishlist = {}
  /\ iosBudget = NoBudget /\ iosExpenses = {} /\ iosTrips = {} /\ iosWishlist = {}

LegacyExpenseDays == {1, 7 * MaxWeeks}

InitWeekly ==
  /\ InitSignedOut
  /\ InitHandlers
  /\ InitView
  /\ InitPlanner
  /\ \E start \in LegacyDays, end \in LegacyDays, actual \in LegacyCosts :
       lsTrips = {LegacyTrip(start, end, MaxAmount, actual)}
  /\ lsExpenses = {}
  /\ lsBudget = [semesterBudget |-> MaxBalance,
                 startDate |-> 2, endDate |-> 7 * MaxWeeks - 1,
                 spent |-> calculateTotalSpent(lsTrips, lsExpenses)]
  /\ weeklyBudgets = NoWeeks
  /\ recommendations = <<>>
  /\ InitRates

NextWeekly ==
  \/ loadData
  \/ \E id \in 1..MaxExpenses, date \in LegacyExpenseDays :
       legacyAddExpense(id, MaxAmount, date)
  \/ \E e \in lsExpenses : legacyDeleteExpense(e)

SpecWeekly == InitWeekly /\ [][NextWeekly]_vars

\* ---- no budget has been set up on any client, and trips and wishlist
\* items may have been entered already: TripCalendar.handleSubmit, the
\* Wishlist handlers and their iOS forms ask for no budget.
NoneOr(choices) == {{}} \cup choices

InitNoBudget ==
  /\ dbBudget = NoBudget
  /\ dbTrips \in NoneOr(TripChoices)
  /\ dbWishlist \in NoneOr(WishChoices)
  /\ dbExpenses = {}
  /\ ctxBudget = dbBudget /\ ctxExpenses = dbExpenses
  /\ ctxTrips = dbTrips /\ ctxWishlist = dbWishlist
  /\ iosBudget = NoBudget
  /\ iosTrips \in NoneOr(TripChoices)
  /\ iosWishlist \in NoneOr(WishChoices)
  /\ iosExpenses = {}
  /\ InitHandlers
  /\ InitView
  /\ InitPlanner
  /\ lsBudget = NoLegacyBudget
  /\ lsTrips \in NoneOr({{LegacyTrip(1, MaxDay, MaxAmount, 0)}})
  /\ lsExpenses = {}
  /\ weeklyBudgets = NoWeeks
  /\ recommendations = <<>>
  /\ InitRates

NextNoBudget ==
  \/ \E id \in WishIds, c \in WishCosts : handleWishlistSubmit(id, c)
  \/ \E i \in ctxWishlist : handleWishlistDelete(i)
  \/ wishlistWritten
  \/ wishlistWriteFailed
  \/ refreshRead("wish")
  \/ refreshCalculate("wish")
  \/ \E id \in WishIds, c \in WishCosts : iosSaveItem(id, c)
  \/ \E i \in iosWishlist : iosDeleteItem(i)
  \/ dayPasses
  \/ loadData

SpecNoBudget == InitNoBudget /\ [][NextNoBudget]_vars

\* ---- the exchange rate service on its own: the data of the clients plays
\* no part.
RateErrors == {"Server error", "Failed to fetch rate"}

InitRateService ==
  /\ InitSignedOut
  /\ InitHandlers
  /\ InitView
  /\ InitPlanner
  /\ InitLegacy
  /\ InitRates

NextRateService ==
  \/ \E f \in FetchIds : fetchRate(f)
  \/ \E f \in FetchIds, rate \in Rates : rateReceived(f, rate)
  \/ \E f \in FetchIds : rateMissing(f)
  \/ \E f \in FetchIds, message \in RateErrors : rateFailed(f, message)
  \/ relaunch
  \/ dayPasses

SpecRateService == InitRateService /\ [][NextRateService]_vars

\* ---- the recommendations of the localStorage client: a budget of one of
\* four sizes over the weeks of the calendar and one trip of one or eight
\* days that starts on one of the first days.
RecLimits == {1, 2, 3, 60}

InitRecommend ==
  /\ InitSignedOut
  /\ InitHandlers
  /\ InitView
  /\ InitPlanner
  /\ InitRates
  /\ \E start \in 1..(MaxDay + 1), length \in {0, 7}, actual \in LegacyCosts :
       lsTrips = {LegacyTrip(start, start + length, MaxAmount, actual)}
  /\ lsExpenses = {}
  /\ \E limit \in RecLimits :
       lsBudget = [semesterBudget |-> limit,
                   startDate |-> 1, endDate |-> 7 * MaxWeeks,
                   spent |-> calculateTotalSpent(lsTrips, lsExpenses)]
  /\ weeklyBudgets = NoWeeks
  /\ recommendations = <<>>

NextRecommend ==
  \/ loadData
  \/ recommend
  \/ dayPasses
  \/ \E id \in 1..MaxExpenses, date \in LegacyExpenseDays :
       legacyAddExpense(id, MaxAmount, date)
  \/ \E e \in lsExpenses : legacyDeleteExpense(e)

SpecRecommend == InitRecommend /\ [][NextRecommend]_vars

\* ---- what the web forms let through: the expense form takes any number
\* that is typed (type="number", no minimum), the budget form any two
\* dates.  A typed 0 is left out: it behaves as the negative amount does.
EnteredAmounts == {0 - 1, MaxAmount}

InitEntry ==
  /\ InitWeb
  /\ InitHandlers
  /\ InitView
  /\ InitLegacy
  /\ InitRates
  /\ InitPlanner

NextEntry ==
  \/ \E a \in EnteredAmounts : handleExpenseFormSubmit(a)
  \/ confirmExpense
  \/ cancelExpenseConfirm
  \/ \E w \in inflight : pendingSaveApplied(w)
  \/ addExpenseInserted
  \/ refreshRead("main")
  \/ refreshCalculate("main")
  \/ refreshSaved("main")
  \/ \E p \in Periods : handleSaveBudget(ctxBudget.budgetMode, MaxBalance, p)

SpecEntry == InitEntry /\ [][NextEntry]_vars

\* ---- refreshData when a read can come back with an error: the user
\* stays signed in, has a budget and records expenses.
NextRefreshError ==
  \/ \E a \in Amounts : handleExpenseFormSubmit(a)
  \/ confirmExpense
  \/ \E w \in inflight : pendingSaveApplied(w)
  \/ addExpenseInserted
  \/ refreshRead("main")
  \/ \E table \in {"budgets", "expenses"} : refreshReadFailed("main", table)
  \/ refreshCalculate("main")
  \/ refreshSaved("main")

SpecRefreshError == InitEntry /\ [][NextRefreshError]_vars

\* ---- the trips table of a new account, written through storage.addTrip,
\* storage.updateTrip and storage.deleteTrip.
InitTrips ==
  /\ InitSignedOut
  /\ InitHandlers
  /\ InitView
  /\ InitLegacy
  /\ InitRates
  /\ InitPlanner

NextTrips ==
  \/ \E id \in TripIds, prepaid \in TripCosts, planned \in TripCosts :
       addTrip(id, prepaid, planned)
  \/ \E row \in dbTrips, prepaid \in TripCosts \cup {Undefined},
        planned \in TripCosts \cup {Undefined} :
       updateTrip(row, prepaid, planned)
  \/ \E row \in dbTrips : deleteTrip(row)

SpecTrips == InitTrips /\ [][NextTrips]_vars

\* ---- the iOS ledger of a budget that stays in Remaining mode.
InitIosLedger ==
  /\ InitIOS
  /\ iosBudget.budgetMode = "remaining"
  /\ InitHandlers
  /\ InitView
  /\ InitLegacy
  /\ InitRates
  /\ InitPlanner

NextIosLedger ==
  \/ \E a \in Amounts : iosAddExpense(a)
  \/ \E b \in 1..(MaxBalance + 1) : iosUpdateBalance(b)
  \/ \E e \in iosExpenses : iosDeleteExpense(e)

SpecIosLedger == InitIosLedger /\ [][NextIosLedger]_vars

\* ================================================================ claims ====

\* ---------------------------------------------------------------------- C1
\* C1: in Remaining mode, once recording an expense of amount a has completed
\* (web: handleAddExpense has returned and the budget write issued by the
\* confirmation has been answered; iOS: addExpense has run), the expense is
\* stored, limit is the limit the operation started from minus a, and the
\* recomputed spent counts the expense.
C1_RecordDecrementsLimit ==
  [][ /\ ( /\ flows["main"].kind = "add"
           /\ flows["main"].budget.budgetMode = "remaining"
           /\ flows'["main"].pc = "idle"
           /\ \A w \in inflight : w.id # flows["main"].expId )
         => /\ newExpense(flows["main"].expId, flows["main"].amount)
                 \in dbExpenses'
            /\ dbBudget'.semesterBudget =
                 flows["main"].budget.semesterBudget - flows["main"].amount
            /\ dbBudget'.spent = SumPrepaid(dbTrips') + SumAmount(dbExpenses')
      /\ \A w \in inflight :
           ( w \notin inflight' /\ flows["main"].expId # w.id )
             => dbBudget'.semesterBudget = w.budget.semesterBudget - w.amount
      /\ \A a \in Amounts :
           ( iosBudget.budgetMode = "remaining" /\ iosAddExpense(a) )
             => /\ iosBudget'.semesterBudget = iosBudget.semesterBudget - a
                /\ SumAmount(iosExpenses') = SumAmount(iosExpenses) + a
    ]_vars

\* ---------------------------------------------------------------------- C2
\* C2: recording an expense in Remaining mode on the web is atomic with the
\* limit decrement: when the handler has returned and the decrementing write
\* has been answered, whatever the order of the expense insert, the
\* decrementing write and the write of refreshData, and whichever of them
\* failed, either the expense is stored and limit = old limit - amount, or
\* the expense is not stored and limit = old limit.
C2_RecordAtomic ==
  [][ /\ ( /\ flows["main"].kind = "add"
           /\ flows["main"].budget.budgetMode = "remaining"
           /\ flows'["main"].pc = "idle"
           /\ \A w \in inflight : w.id # flows["main"].expId )
         => LET id  == flows["main"].expId
                a   == flows["main"].amount
                old == flows["main"].budget.semesterBudget
            IN \/ /\ newExpense(id, a) \in dbExpenses'
                  /\ dbBudget'.semesterBudget = old - a
               \/ /\ newExpense(id, a) \notin dbExpenses'
                  /\ dbBudget'.semesterBudget = old
      /\ \A w \in inflight :
           ( w \notin inflight' /\ flows["main"].expId # w.id )
             => LET old == w.budget.semesterBudget IN
                \/ /\ newExpense(w.id, w.amount) \in dbExpenses'
                   /\ dbBudget'.semesterBudget = old - w.amount
                \/ /\ newExpense(w.id, w.amount) \notin dbExpenses'
                   /\ dbBudget'.semesterBudget = old
    ]_vars

\* ---------------------------------------------------------------------- C3
\* C3: in Remaining mode, when the deletion of an expense that was recorded
\* in Remaining mode has completed, limit is back at the value it had before
\* the expense was recorded: the limit before the deletion plus the amount
\* of the expense (web: handleDeleteExpense returns, with nothing else in
\* progress and the client's limit being the stored one; iOS: deleteExpense
\* has run).
C3_DeleteRestoresLimit ==
  [][ /\ ( /\ flows["delete"].pc \in {"r_calc", "r_save"}
           /\ flows'["delete"].pc = "idle"
           /\ ctxBudget.budgetMode = "remaining"
           /\ Resting("main") /\ inflight = {}
           /\ ctxBudget.semesterBudget = dbBudget.semesterBudget
           /\ \A x \in dbExpenses' : x.id # flows["delete"].expId )
         => /\ dbBudget'.semesterBudget =
                 ctxBudget.semesterBudget + flows["delete"].amount
            /\ ctxBudget'.semesterBudget =
                 ctxBudget.semesterBudget + flows["delete"].amount
      /\ \A e \in iosExpenses :
           ( iosBudget.budgetMode = "remaining" /\ iosDeleteExpense(e) )
             => iosBudget'.semesterBudget = iosBudget.semesterBudget + e.amount
    ]_vars

\* ---------------------------------------------------------------------- C4
\* C4: for a budget whose stored mode is "total" or "tracking", on either
\* client, no step of an expense operation (recording, deleting, the
\* refresh that follows) changes limit.
C4_LimitUntouchedOutsideRemaining ==
  [][ /\ dbBudget.budgetMode \in {"total", "tracking"}
         => dbBudget'.semesterBudget = dbBudget.semesterBudget
      /\ ( iosBudget.budgetMode \in {"total", "tracking"}
           /\ iosExpenses' # iosExpenses )
         => iosBudget'.semesterBudget = iosBudget.semesterBudget
    ]_vars

C6_BalanceIncreaseAccepted ==
  \A b \in Balances :
    ( /\ iosBudget # NoBudget
      /\ iosMode(iosBudget) = "remaining"
      /\ iosBudget.semesterBudget - b < 0 )
    => ENABLED ( /\ iosUpdateBalance(b)
                 /\ iosBudget'.semesterBudget = b
                 /\ iosExpenses' = iosExpenses )

\* ---------------------------------------------------------------------- C7
\* C7: the web balance update is atomic: whenever confirmUpdateBalance
\* returns after a positive difference, with or without a failed write,
\* either the synthetic expense is stored and limit = B_new, or the expense
\* is not stored and limit is still the balance the update started from.
C7_BalanceAtomic ==
  [][ ( /\ flows["main"].kind = "balance"
        /\ flows["main"].amount > 0
        /\ flows'["main"].pc = "idle" )
      => LET stored == \E x \in dbExpenses' : x.id = flows["main"].expId IN
         \/ /\ stored
            /\ dbBudget'.semesterBudget = flows["main"].newBalance
         \/ /\ ~stored
            /\ dbBudget'.semesterBudget = flows["main"].budget.semesterBudget
    ]_vars

\* ---------------------------------------------------------------------- C8
\* C8: setting the balance to X and then back to the original value, both
\* updates carried out in full, leaves limit at the original value and the
\* total of the expense ledger where it was.
C8_BalanceRoundTrip ==
  /\ ( /\ ctxBudget # NoBudget /\ ctxBudget.budgetMode = "remaining"
       /\ Resting("main") /\ Resting("delete") /\ inflight = {}
       /\ ctxBudget = dbBudget )
     => \A x \in Balances :
          LET there == confirmUpdateBalanceResult(dbBudget, dbExpenses,
                                                  nextId, x)
              back  == confirmUpdateBalanceResult(there.budget, there.expenses,
                                                  nextId + 1,
                                                  dbBudget.semesterBudget)
          IN /\ back.budget.semesterBudget = dbBudget.semesterBudget
             /\ SumAmount(back.expenses) = SumAmount(dbExpenses)
  /\ ( /\ iosBudget # NoBudget /\ iosMode(iosBudget) = "remaining"
       /\ iosBudget.semesterBudget > 0 )
     => \A x \in Balances \ {0} :
          LET there == iosUpdateBalanceResult(iosBudget, iosExpenses,
                                              iosNextId, x)
              back  == iosUpdateBalanceResult(there.budget, there.expenses,
                                              iosNextId + 1,
                                              iosBudget.semesterBudget)
          IN /\ back.budget.semesterBudget = iosBudget.semesterBudget
             /\ SumAmount(back.expenses) = SumAmount(iosExpenses)

C10_RemainingFigures ==
  /\ ( ctxBudget # NoBudget /\ ctxBudget.budgetMode = "remaining" )
     => /\ dashCurrentRemaining = ctxBudget.semesterBudget
        /\ dashAfterPlannedSpending(FALSE)
             = ctxBudget.semesterBudget - SumPlanned(ctxTrips)
        /\ calRemainingBudget
             = ctxBudget.semesterBudget - SumPlanned(ctxTrips)
  /\ ( /\ iosBudget # NoBudget /\ iosMode(iosBudget) = "remaining"
       /\ ~iosIncludeWishlist )
     => /\ iosCurrentRemaining = iosBudget.semesterBudget
        /\ iosAfterPlanned = iosBudget.semesterBudget - SumPlanned(iosTrips)
        /\ iosCalRemainingBudget(FALSE)
             = iosBudget.semesterBudget - SumPlanned(iosTrips)

\* --------------------------------------------------------------------- C11
\* C11: for every budget in Tracking mode the remaining figure is 0 and the
\* daily allowance is 0, whatever the trips, expenses and wishlist items
\* are: remaining of the web Dashboard, remainingBudget and dailyBudget of
\* the web CalendarView (with and without the wishlist), remaining of the
\* iOS DashboardView, remainingBudget and dailyBudget of the iOS
\* CalendarTabView.
C11_TrackingFiguresZero ==
  /\ ( ctxBudget # NoBudget /\ ctxBudget.budgetMode = "tracking" )
     => /\ dashRemaining = 0
        /\ calRemainingBudget = 0
        /\ calRemainingBudgetWithWishlist = 0
        /\ IsZero(calDailyBudget)
        /\ IsZero(calDailyBudgetWithWishlist)
  /\ ( iosBudget # NoBudget /\ iosMode(iosBudget) = "tracking" )
     => /\ iosRemaining = 0
        /\ iosCalRemainingBudget(iosIncludeWishlist) = 0
        /\ IsZero(iosDailyBudget)

\* --------------------------------------------------------------------- C12
\* C12: for any today, periodStart and periodEnd the remaining-days count is
\* at least 1, so the division that yields the daily allowance never
\* divides by zero: remainingDays and dailyBudget of the web CalendarView
\* and of the iOS CalendarTabView.
C12_RemainingDaysAtLeastOne ==
  /\ ctxBudget # NoBudget
     => /\ calRemainingDays >= 1
        /\ IsFinite(calDailyBudget)
        /\ IsFinite(calDailyBudgetWithWishlist)
  /\ iosBudget # NoBudget
     => /\ iosRemainingDays >= 1
        /\ IsFinite(iosDailyBudget)

\* --------------------------------------------------------------------- C13
\* C13: for a period with periodEnd >= periodStart the remaining-days count
\* is (periodEnd - periodStart) + 1 when today < periodStart, 1 when
\* today > periodEnd, and (periodEnd - today) + 1 otherwise, on the web
\* CalendarView and on the iOS CalendarTabView.
C13_RemainingDaysCases ==
  LET cases(p) ==
        IF today < p.startDate THEN (p.endDate - p.startDate) + 1
        ELSE IF today > p.endDate THEN 1
        ELSE (p.endDate - today) + 1
  IN /\ ( ctxBudget # NoBudget
          /\ budgetPeriod.endDate >= budgetPeriod.startDate )
        => calRemainingDays = cases(budgetPeriod)
     /\ ( iosBudget # NoBudget /\ iosPeriod.endDate >= iosPeriod.startDate )
        => iosRemainingDays = cases(iosPeriod)

\* --------------------------------------------------------------------- C14
\* C14: with a positive limit and remainingDays >= 1, the daily allowance
\* is remainingBudget / remainingDays and the weekly allowance is seven
\* times that, where remainingBudget is the remaining figure of the mode
\* (limit - spent in Total mode, limit in Remaining mode), less the wishlist
\* total when the wishlist is included: dailyBudget and weeklyBudget of the
\* web CalendarView and of the iOS CalendarTabView.
C14_AllowanceFromRemaining ==
  /\ ( /\ ctxBudget # NoBudget
       /\ ctxBudget.budgetMode \in {"total", "remaining"}
       /\ ctxBudget.semesterBudget > 0
       /\ calRemainingDays >= 1 )
     => LET remaining ==
              IF ctxBudget.budgetMode = "total"
              THEN ctxBudget.semesterBudget - ctxBudget.spent
              ELSE ctxBudget.semesterBudget
            remainingBudget ==
              remaining - (IF webIncludeWishlist
                           THEN SumEstimated(ctxWishlist) ELSE 0)
        IN /\ EqualsRatio(calShownDaily, remainingBudget, calRemainingDays)
           /\ EqualsRatio(calShownWeekly, 7 * remainingBudget,
                          calRemainingDays)
  /\ ( /\ iosBudget # NoBudget
       /\ iosBudget.budgetMode \in {"total", "remaining"}
       /\ iosBudget.semesterBudget > 0 )
     => LET remaining ==
              IF iosBudget.budgetMode = "total"
              THEN iosBudget.semesterBudget - iosTotalSpent
              ELSE iosBudget.semesterBudget
            remainingBudget ==
              remaining - (IF iosIncludeWishlist
                           THEN SumEstimated(iosWishlist) ELSE 0)
        IN /\ EqualsRatio(iosDailyBudget, remainingBudget, iosRemainingDays)
           /\ EqualsRatio(iosWeeklyBudget, 7 * remainingBudget,
                          iosRemainingDays)

\* --------------------------------------------------------------------- C15
\* C15: no step of a wishlist operation (add, update, delete) or of an
\* include-wishlist toggle puts a wishlist amount into the stored budget:
\* the stored spent and plannedSpending stay as they are or become what
\* they are with an empty wishlist, the sums over the trips and expenses
\* (web); the iOS budget is not written at all.
C15_WishlistNeverPersisted ==
  [][ /\ dbBudget'.spent \in
           {dbBudget.spent, SumPrepaid(dbTrips) + SumAmount(dbExpenses)}
      /\ dbBudget'.plannedSpending \in
           {dbBudget.plannedSpending, SumPlanned(dbTrips)}
      /\ iosBudget'.spent = iosBudget.spent
      /\ iosBudget'.plannedSpending = iosBudget.plannedSpending ]_vars

\* The wishlist item was edited on the web (or removed and another one
\* added), the refreshData that followed has completed and the checkbox is
\* ticked: the budgets row holds the sums over the trips.
C15_Witness ==
  /\ dbWishlist # {} /\ dbWishlist \notin WishChoices
  /\ Resting("wish")
  /\ dbBudget # NoBudget
  /\ dbBudget.plannedSpending = SumPlanned(dbTrips)
  /\ dbBudget.spent = SumPrepaid(dbTrips)
  /\ ctxWishlist = dbWishlist
  /\ webIncludeWishlist

\* --------------------------------------------------------------------- C16
\* C16: no step of a weekly plan operation (creating the plan, adding,
\* changing or deleting an event, deleting the plan, loading it) changes
\* spent, plannedSpending or the limit of the budget, stored or cached, on
\* the web or on iOS.
C16_PlannerLeavesBudget ==
  [][ /\ dbBudget' = dbBudget
      /\ ctxBudget' = ctxBudget
      /\ iosBudget' = iosBudget ]_vars

\* On the web a plan was created beside a budget, it holds an event, the
\* view shows it as stored, and every row the bound allows has been created.
C16_Witness ==
  /\ dbBudget # NoBudget
  /\ dbWeeklyPlans # {} /\ dbPlanEvents # {}
  /\ weeklyPlan = getWeeklyPlan
  /\ planNextId > MaxPlanRows

\* --------------------------------------------------------------------- C17
\* C17: the planned total of the selected week is the sum of the amounts of
\* all events of its plan, which is the sum of the seven per-day totals, and
\* the reported difference is weeklyAllowance - plannedTotal (difference +
\* plannedTotal = weeklyAllowance), on the web CalendarView and on the iOS
\* CalendarTabView.
C17_WeekTotals ==
  /\ ctxBudget # NoBudget
     => /\ getWeekTotal = getDayTotal(0) + getDayTotal(1) + getDayTotal(2)
                            + getDayTotal(3) + getDayTotal(4) + getDayTotal(5)
                            + getDayTotal(6)
        /\ weeklyPlan = getWeeklyPlan
             => getWeekTotal = SumAmount(dbPlanEvents)
        /\ EqualsRatio(calShownWeekly,
                       calDifference.num + getWeekTotal * calDifference.den,
                       calDifference.den)
  /\ iosBudget # NoBudget
     => LET plan == iosCurrentWeeklyPlan IN
        /\ iosPlannedTotal = SumAmount(plan.events)
        /\ iosPlannedTotal =
             iosTotalForDay(plan, 0) + iosTotalForDay(plan, 1)
               + iosTotalForDay(plan, 2) + iosTotalForDay(plan, 3)
               + iosTotalForDay(plan, 4) + iosTotalForDay(plan, 5)
               + iosTotalForDay(plan, 6)
        /\ EqualsRatio(iosWeeklyBudget,
                       iosDifference.num + iosPlannedTotal * iosDifference.den,
                       iosDifference.den)

\* The web plan holds two Monday events and one Tuesday event, as stored,
\* and the planned total is above zero.
C17_Witness ==
  /\ ctxBudget # NoBudget
  /\ weeklyPlan = getWeeklyPlan
  /\ Cardinality(getEventsForDay(0)) = 2
  /\ Cardinality(getEventsForDay(1)) = 1
  /\ getWeekTotal = getDayTotal(0) + getDayTotal(1)
  /\ getDayTotal(0) = MaxAmount + 1

\* --------------------------------------------------------------------- C18
\* C18: a week has at most one weekly plan, also when two add-event flows
\* overlap and both find no plan, and, no request failing, each flow ends
\* with its event attached to that plan: none ends with the error alert and
\* a flow that found no plan can still go on to its event.
C18_OnePlanBothEventsAttached ==
  /\ Cardinality(dbWeeklyPlans) <= 1
  /\ Cardinality(iosWeeklyPlans) <= 1
  /\ \A f \in PlanFlowIds :
       /\ planFlows[f].pc # "alerted"
       /\ planFlows[f].pc = "p_insert" => dbWeeklyPlans = {}

\* --------------------------------------------------------------------- C19
\* C19: in the even-split weekly view, what a week's spent holds beyond the
\* week's own expenses is, for the trip, tripTotalCost / weeksSpanned when
\* the trip's start or end day is a day of the week or the trip runs from
\* the Monday or earlier to the Sunday or later, and nothing otherwise;
\* duration is max(1, end - start) days and weeksSpanned the least number
\* of weeks that has duration days.  A trip of seven days inside one week
\* (Monday to Sunday) puts its whole cost in that week and nothing in the
\* others; a trip of ten days over two adjacent weeks puts half its cost
\* in each.
C19_EvenSplit ==
  weeklyBudgets # NoWeeks =>
    \A trip \in lsTrips :
      LET total == legacyCost(trip)
          duration == Max(1, trip.endDate - trip.startDate)
          weeksSpanned == CHOOSE k \in 1..(MaxWeeks + 1) :
                            7 * (k - 1) < duration /\ duration <= 7 * k
          days(w) == (7 * w - 6)..(7 * w)
          overlaps(w) == \/ trip.startDate \in days(w)
                         \/ trip.endDate \in days(w)
                         \/ /\ trip.startDate <= 7 * w - 6
                            /\ trip.endDate >= 7 * w
          ownExpenses(w) == SumAmount({e \in lsExpenses : e.date \in days(w)})
          absorbed(w) == Minus(weeklyBudgets[w].spent,
                               Quotient(ownExpenses(w), 1))
          calendarDays == trip.endDate - trip.startDate + 1
      IN /\ \A w \in DOMAIN weeklyBudgets :
              IF overlaps(w) THEN EqualsRatio(absorbed(w), total, weeksSpanned)
              ELSE IsZero(absorbed(w))
         /\ calendarDays = 7 /\ WeekOf(trip.startDate) = WeekOf(trip.endDate)
              => \A w \in DOMAIN weeklyBudgets :
                   IF w = WeekOf(trip.startDate)
                   THEN EqualsRatio(absorbed(w), total, 1)
                   ELSE IsZero(absorbed(w))
         /\ calendarDays = 10 /\ WeekOf(trip.endDate) = WeekOf(trip.startDate) + 1
              => \A w \in DOMAIN weeklyBudgets :
                   IF w \in {WeekOf(trip.startDate), WeekOf(trip.endDate)}
                   THEN EqualsRatio(absorbed(w), total, 2)
                   ELSE IsZero(absorbed(w))

\* The weekly view has been computed for a trip of ten days, Thursday of
\* the first week to Saturday of the second, with an expense on the first
\* Monday: the first week's spent is half the trip's cost plus the expense.
C19_Witness ==
  /\ weeklyBudgets # NoWeeks
  /\ \E trip \in lsTrips :
       /\ trip.startDate = 4 /\ trip.endDate = 13
       /\ tripOverlapsWeek(trip, 1) /\ tripOverlapsWeek(trip, 2)
       /\ EqualsRatio(costPerWeek(trip), legacyCost(trip), 2)
       /\ \E e \in lsExpenses : e.date = 1
       /\ EqualsRatio(weeklyBudgets[1].spent,
                      legacyCost(trip) + 2 * SumAmount(lsExpenses), 2)

\* --------------------------------------------------------------------- C20
\* C20: while a client has no budget, every figure it derives is zero or
\* empty, whatever trips, expenses and wishlist items are stored: remaining
\* and remaining after planned spending (with and without the wishlist),
\* the percentages, the daily and weekly allowance, and the weekly budgets
\* of the even-split view; no division by zero occurs.
C20_NoBudgetFiguresZero ==
  /\ ctxBudget = NoBudget
       => /\ dashRemaining = 0
          /\ dashRemainingWithWishlist = 0
          /\ dashRemainingAfterPlanned = 0
          /\ dashRemainingAfterPlannedWithWishlist = 0
          /\ IsZero(dashPercentageUsed)
          /\ IsZero(dashPercentageUsedWithWishlist)
          /\ IsZero(dashPercentageCommitted)
          /\ calRemainingBudget = 0
          /\ calRemainingBudgetWithWishlist = 0
          /\ IsZero(calDailyBudget) /\ IsZero(calDailyBudgetWithWishlist)
          /\ IsZero(calWeeklyBudget) /\ IsZero(calWeeklyBudgetWithWishlist)
  /\ iosBudget = NoBudget
       => /\ iosRemaining = 0
          /\ iosRemainingAfterPlanned = 0
          /\ iosCalRemainingBudget(iosIncludeWishlist) = 0
          /\ IsZero(iosDailyBudget)
          /\ IsZero(iosWeeklyBudget)
  /\ lsBudget = NoLegacyBudget => weeklyBudgets = NoWeeks

\* --------------------------------------------------------------------- C30
\* C30: for a trip whose days all lie inside the budget period, the number
\* of weeks of the weekly view that pass the overlap test is weeksSpanned,
\* the least number of weeks that has max(1, end - start) days, and the
\* amounts the weeks take from the trip add up to the trip's cost.
C30_TripCostConserved ==
  weeklyBudgets # NoWeeks =>
    \A trip \in lsTrips :
      (/\ lsBudget.startDate <= trip.startDate
       /\ trip.startDate <= trip.endDate
       /\ trip.endDate <= lsBudget.endDate)
      => LET duration == Max(1, trip.endDate - trip.startDate)
             weeksSpanned == CHOOSE k \in 1..(MaxWeeks + 1) :
                               7 * (k - 1) < duration /\ duration <= 7 * k
             taking == {w \in DOMAIN weeklyBudgets : tripOverlapsWeek(trip, w)}
         IN /\ Cardinality(taking) = weeksSpanned
            /\ EqualsRatio(costPerWeek(trip),
                           legacyCost(trip), Cardinality(taking))

\* --------------------------------------------------------------------- C23
\* C23: converting an amount of euros gives amount * rate, times 1.03 when
\* the transaction fee is asked for and only then; an amount entered in
\* dollars, the home currency, is taken as it is.
C23_Conversion ==
  \A amount \in (0 - MaxAmount)..MaxAmount, fee \in BOOLEAN :
    /\ EqualsRatio(convertToUSD(amount, fee),
                   amount * eurToUsd * (IF fee THEN 103 ELSE 100), 100 * 100)
    /\ amount > 0 =>
         /\ EqualsRatio(expenseAmountUSD(amount, "USD", fee), amount, 1)
         /\ EqualsRatio(expenseAmountUSD(amount, "EUR", fee),
                        amount * eurToUsd * (IF fee THEN 103 ELSE 100),
                        100 * 100)

\* A fetched rate is in use, and with it the fee makes a conversion 3%
\* larger than the same conversion without the fee.
C23_Witness ==
  /\ eurToUsd \in Rates
  /\ lastUpdated = today
  /\ LET plain == expenseAmountUSD(MaxAmount, "EUR", FALSE)
         withFee == expenseAmountUSD(MaxAmount, "EUR", TRUE)
     IN /\ EqualsRatio(plain, MaxAmount * eurToUsd, 100)
        /\ EqualsRatio(withFee, plain.num * 103, plain.den * 100)
        /\ ~EqualsRatio(withFee, plain.num, plain.den)

\* --------------------------------------------------------------------- C24
\* C24: the rate is refreshed at most once per calendar day: once a rate
\* has been received today, no step of the same day changes the rate in
\* use or issues another rate request, also when several fetchRate calls
\* were started before the first one completed.
C24_OneRefreshPerDay ==
  [][(lastUpdated = today /\ today' = today)
       => (eurToUsd' = eurToUsd /\ rateRequests' = rateRequests)]_vars

\* --------------------------------------------------------------------- C25
\* C25: when a rate fetch fails (the request or the decoding throws, the
\* status is not 200, or the response holds no usable rate), the rate in
\* use is unchanged and is the cached rate or the fallback, an error
\* message is set, isLoading is false and a conversion is a number.
C25_FailedFetch ==
  [][\A f \in FetchIds :
       (rateMissing(f) \/ \E message \in RateErrors : rateFailed(f, message))
       => /\ eurToUsd' = eurToUsd
          /\ eurToUsd' \in {cachedRate'.rate, FallbackRate}
          /\ error' # NoError
          /\ isLoading' = FALSE
          /\ eurToUsd' > 0]_vars

\* --------------------------------------------------------------------- C21
\* C21: the list getRecommendations returns is in priority order, the
\* overall-budget entry before the current-week entry before the
\* upcoming-trips entry, with at most one entry of each rule: the
\* over-budget warning when remaining < 0, the low-balance warning when
\* 0 <= remaining < limit / 10, the over-budget-this-week warning when the
\* week's remaining < 0 and the low-week-balance warning when
\* 0 <= week's remaining < week's budget / 5.
C21_PriorityOrder ==
  [][recommend =>
       LET recs == recommendations'
           has(name) == \E i \in 1..Len(recs) : recs[i] = name
           rank(name) == CASE name \in {"overBudget", "lowBalance"} -> 1
                           [] name \in {"overWeek", "lowWeek"} -> 2
                           [] name = "upcomingTrips" -> 3
                           [] OTHER -> 4
           remaining == lsBudget.semesterBudget
                          - calculateTotalSpent(lsTrips, lsExpenses)
           week == WeekOf(today)
           hasWeek == week \in DOMAIN weeklyBudgets
           weekLeft == weeklyBudgets[week].remaining
           weekBudget == weeklyBudgets[week].budget
       IN /\ \A i \in 1..Len(recs), j \in 1..Len(recs) :
               i < j => rank(recs[i]) < rank(recs[j])
          /\ has("overBudget") <=> remaining < 0
          /\ has("lowBalance") <=>
               (remaining >= 0 /\ 10 * remaining < lsBudget.semesterBudget)
          /\ has("overWeek") <=>
               (hasWeek /\ weekLeft.num * weekLeft.den < 0)
          /\ has("lowWeek") <=>
               (/\ hasWeek
                /\ weekLeft.num * weekLeft.den >= 0
                /\ 5 * weekLeft.num * weekBudget.den
                     < weekBudget.num * weekLeft.den)]_vars

\* The three rules have fired together and in order: nothing is left of a
\* budget of 2, the first week is overspent, and the trip is still to come.
C21_Witness ==
  /\ recommendations = <<"lowBalance", "overWeek", "upcomingTrips">>
  /\ weeklyBudgets # NoWeeks
  /\ calculateRemainingBudget(lsBudget, lsTrips, lsExpenses) = 0
  /\ \E trip \in lsTrips : trip.startDate > today

\* --------------------------------------------------------------------- C22
\* C22: the list getRecommendations returns is never empty; it holds the
\* positive affirmation exactly when none of the five rules applies
\* (remaining is at least a tenth of the limit and not negative, the
\* current week, if any, has at least a fifth of its budget left, and the
\* upcoming trips cost no more than remaining), and then the affirmation
\* is its only entry.
C22_AffirmationAlone ==
  [][recommend =>
       LET recs == recommendations'
           affirmation == \E i \in 1..Len(recs) : recs[i] = "affirmation"
           remaining == lsBudget.semesterBudget
                          - calculateTotalSpent(lsTrips, lsExpenses)
           week == WeekOf(today)
           weekFine ==
             week \in DOMAIN weeklyBudgets =>
               LET left == weeklyBudgets[week].remaining
                   whole == weeklyBudgets[week].budget
               IN /\ left.num * left.den >= 0
                  /\ 5 * left.num * whole.den >= whole.num * left.den
           upcomingCost ==
             calculateTotalSpent({t \in lsTrips : t.startDate > today}, {})
           noRuleApplies == /\ remaining >= 0
                            /\ 10 * remaining >= lsBudget.semesterBudget
                            /\ weekFine
                            /\ upcomingCost <= remaining
       IN /\ Len(recs) >= 1
          /\ affirmation <=> noRuleApplies
          /\ affirmation => recs = <<"affirmation">>]_vars

\* With the largest budget and the weekly budgets computed, the affirmation
\* is the whole list.
C22_Witness ==
  /\ recommendations = <<"affirmation">>
  /\ weeklyBudgets # NoWeeks
  /\ 10 * calculateRemainingBudget(lsBudget, lsTrips, lsExpenses)
       >= lsBudget.semesterBudget
  /\ lsExpenses # {}

\* --------------------------------------------------------------------- C26
\* C26: invalid input is never stored: every expense row has an amount
\* above zero and the period of the budget row does not end before it
\* starts.
C26_OnlyValidStored ==
  /\ \A e \in dbExpenses : e.amount > 0
  /\ dbBudget # NoBudget => budgetPeriod.endDate >= budgetPeriod.startDate

\* --------------------------------------------------------------------- C27
\* C27: when a read of refreshData hits an error, what the data context
\* holds is kept: the context never loses its budget, and its expenses
\* become empty only when the expenses table is empty.
C27_ContextPreserved ==
  [][/\ ctxBudget # NoBudget => ctxBudget' # NoBudget
     /\ (ctxExpenses # {} /\ ctxExpenses' = {}) => dbExpenses' = {}]_vars

\* --------------------------------------------------------------------- C28
\* C28: in every row of the trips table the legacy estimated_cost equals
\* prepaid_cost + planned_cost, after addTrip and after any updateTrip,
\* also one that supplies only one of the two costs.
C28_LegacyInSync ==
  \A row \in dbTrips : row.estimatedCost = row.prepaidCost + row.plannedCost

\* --------------------------------------------------------------------- C29
\* C29: on iOS, in Remaining mode, the limit plus the sum of the amounts of
\* all recorded expenses is the same before and after addExpense, after
\* deleteExpense, and after updateBalance to a lower balance; updateBalance
\* to a higher balance raises it by the new balance minus the old one.
C29_LimitPlusExpenses ==
  [][LET before == iosBudget.semesterBudget + SumAmount(iosExpenses)
         after == iosBudget'.semesterBudget + SumAmount(iosExpenses')
     IN /\ \A a \in Amounts : iosAddExpense(a) => after = before
        /\ \A e \in iosExpenses : iosDeleteExpense(e) => after = before
        /\ \A b \in 1..(MaxBalance + 1) :
             iosUpdateBalance(b) =>
               IF b < iosBudget.semesterBudget
               THEN after = before
               ELSE after = before + (b - iosBudget.semesterBudget)]_vars

\* The balance has been lowered, which recorded a Balance Adjustment, an
\* expense has been added, and one of the two has been deleted again with
\* the limit above zero.
C29_Witness ==
  /\ iosBudget # NoBudget
  /\ iosBudget.budgetMode = "remaining"
  /\ iosNextId = 3
  /\ Cardinality(iosExpenses) = 1
  /\ iosBudget.semesterBudget > 0

====
